---- MODULE Spec2Model ----
(***************************************************************************)
(* A model of jmcomic_ai's service layer (src/src/jmcomic_ai/core.py):     *)
(*   - JmcomicService.update_option / reload_option / _load_option: the    *)
(*     settings document, the option file and the client built from it;    *)
(*   - JmcomicService.download_album with its McpProgressDownloader: the   *)
(*     worker thread, the image threads' after_image callbacks, the lock   *)
(*     around photo_progress, the log and the hand-off to the MCP context; *)
(*   - JmcomicService.download_photo with its McpPhotoProgressDownloader   *)
(*     and the read of the chapter after the download.                     *)
(* The jmcomic library (JmOption, JmDownloader, the client) is external:   *)
(* a call into it is modelled by its outcomes (returns or raises).         *)
(***************************************************************************)
EXTENDS Integers, Sequences, FiniteSets, TLC

\* The service's settings (core.py:75-80) come first, then the state of one
\* update_option call, of one download call, of its worker, and its notes.
VARIABLES option,    \* self.option: the active in-memory settings document
    client,          \* self.client, named by the document it was built from
    optFile,         \* the file at self.option_path: [st, doc]
    \* ---- one update_option call (core.py:171-192) ----
    upc,             \* where the call stands
    option_updates,  \* the argument
    current_option,  \* local: self.option.deconstruct()
    merged_option,   \* local
    new_option,      \* local
    upRet,           \* what the call gave its caller
    upFailedAt,      \* the step whose exception the except clause caught
    upHist,          \* option, client and file as they were when the call began
    calls,           \* number of update_option calls made so far
    \* ---- one download_album / download_photo call (core.py:428-669) ----
    dkind,           \* "album" or "photo": the operation called
    dpc,             \* where the async call stands
    ctx,             \* the MCP context handed in: none, or how it behaves
    album,           \* the pages of each chapter, as the content client tells
    target_path,     \* download_album's local target_path
    result,          \* the dict returned to the caller
    postRead,        \* download_photo: how the read after the download went
    usedOption,      \* the settings document the worker thread read (core.py:533, 640)
    \* ---- the worker thread: JmDownloader driving the hooks ----
    wpc,             \* where the blocking download stands
    chSt,            \* each chapter: pending, running, done or failed
    remaining,       \* each chapter: images not yet handled
    afterImages,     \* each chapter: after_image calls made so far
    slots,           \* the image threads: the after_image call each is in
    photo_progress,  \* McpProgressDownloader.photo_progress
    lock,            \* McpProgressDownloader.lock: 0, or the thread holding it
    pcurrent,        \* McpPhotoProgressDownloader.current
    ptotal,          \* McpPhotoProgressDownloader.total
    engineFailed,    \* the library has recorded a failed fetch
    hookRaised,      \* an exception has left one of the hooks
    \* ---- what the hooks emit ----
    logged,          \* per chapter: the 'current' of each progress line logged
    pendingNotes,    \* coroutines are scheduled on the loop and have not run yet
    noteFailed,      \* a coroutine has failed when the loop ran it
    warnings,        \* hand-offs that raised and were logged as a warning
    \* ---- one _load_option call, from __init__ or reload_option ----
    lpc,             \* where the load stands
    lcaller,         \* "init" (core.py:78) or "reload" (core.py:146)
    parentDir,       \* self.option_path.parent exists
    lstart,          \* the file as the load found it
    lret,            \* the document the load returns
    lwrote,          \* the load has called to_file
    touched,         \* the file was changed from outside since the last load
    loadLog,         \* one record per finished load
    svc,             \* the service object: none, ready, or its constructor raised
    \* ---- one post_process call (core.py:733-866) ----
    ppc,             \* where the call stands
    disk,            \* what stands at each chapter's predicted directory
    process_type,    \* the argument
    params,          \* the argument
    albumFetched,    \* album has been albumFetched
    ppi,             \* the chapter `for photo in album` is at
    photo_dict,      \* local: the manifest, chapter -> images
    actual_params,   \* local: what the plugin is pluginInvoked with
    pluginBuilt,     \* pclass.build has been called
    pluginInvoked,   \* plugin.invoke has been called
    wrote,           \* the paths the plugin wrote
    ppResult,        \* the dict returned
    ppRaisedAt,      \* the exception the except clause caught
    \* ---- two download_album calls at a time ----
    cst,             \* each call: where it stands
    cpages,          \* each call: the pages of its album's chapter
    cinst,           \* each call: the downloader instance the library made for it
    nInst,           \* downloader instances made so far
    cprogress,       \* each instance: self.photo_progress
    clockH,          \* each instance: the holder of self.lock
    cthr,            \* each call: its image threads inside after_image
    cleft,           \* each call: images not yet handed to after_image
    ccalls,          \* each call: after_image calls that left the lock
    \* ---- one resolve_option_path call (core.py:29-71) ----
    rpc,             \* where the call stands
    cli_path,        \* the argument: None, or a string
    environ,         \* os.environ's JM_OPTION_PATH: unset, or a string
    cwd,             \* the process's working directory
    home,            \* Path.home() when the module was imported
    fs,              \* the symbolic links of the filesystem
    rstart,          \* environ and fs as they were when the call began
    rpath,           \* the Path returned
    rlog,            \* the logger.info line: which branch was taken
    \* ---- one browse_albums call (core.py:287-426) ----
    bpc,             \* where the call stands
    category,        \* the arguments
    time_range,
    order_by,
    page,
    category_value,  \* locals: what the three maps gave, or None
    time_value,
    order_value,
    clientCalls,     \* the calls made on the content client, with arguments
    bresult,         \* the dict returned
    errorLog,        \* the logger.error lines
    \* ---- a progress downloader driven hook by hook (core.py:470-526, 591-634) ----
    hClass,          \* "album": McpProgressDownloader, "photo": McpPhotoProgressDownloader
    hProgress,       \* McpProgressDownloader.photo_progress
    hCurrent,        \* McpPhotoProgressDownloader.current
    hTotal,          \* McpPhotoProgressDownloader.total
    hLast,           \* the last hook call: its chapter, the total known, its message
    hCalls,          \* hook calls made so far
    \* ---- jmai skills install / uninstall (cli.py:118-226, skills/manager.py:78-143) ----
    spc,             \* where the command stands
    overwrite,       \* SkillManager.install's argument
    target,          \* the target directory: what each path holds
    target0,         \* the target directory as the command found it
    pending,         \* the source files os.walk has not handed out yet
    dirs,            \* the directories that exist below the target
    dirs0,           \* those directories as the command found them
    walk,            \* uninstall: the source directories os.walk has yet to hand out
    sret,            \* what SkillManager.uninstall returned
    prior,           \* where the command before the uninstall had ended
    \* ---- run_with_reloader and its RestartHandler (mcp/reloader.py) ----
    clock,           \* time.time(), in ticks
    process,         \* run_with_reloader's `process`: the child it names
    children,        \* every child spawned so far: how it stands
    sp,              \* each thread: where it stands in start_process
    mpc,             \* the main thread: where it stands in the monitor loop
    hpc,             \* the observer thread: where it stands in on_modified
    now,             \* on_modified's local
    last_restart,    \* RestartHandler.last_restart
    triggers         \* the calls of restart_callback: when, and for which path

cfgVars == <<option, client, optFile, upc, option_updates, current_option,
             merged_option, new_option, upRet, upFailedAt, upHist, calls>>

callVars == <<dkind, dpc, ctx, album, target_path, result, postRead>>

workerVars == <<wpc, chSt, remaining, afterImages, slots, photo_progress, lock,
                pcurrent, ptotal, engineFailed, hookRaised>>

noteVars == <<logged, pendingNotes, noteFailed, warnings>>

dlVars == <<callVars, workerVars, noteVars, usedOption>>

ldVars == <<lpc, lcaller, parentDir, lstart, lret, lwrote, touched, loadLog, svc>>

\* What the update_option and download actions never touch.
ppVars == <<ppc, disk, process_type, params, albumFetched, ppi, photo_dict,
           actual_params, pluginBuilt, pluginInvoked, wrote, ppResult, ppRaisedAt>>

conVars == <<cst, cpages, cinst, nInst, cprogress, clockH, cthr, cleft, ccalls>>

rsVars == <<rpc, cli_path, environ, cwd, home, fs, rstart, rpath, rlog>>

brVars == <<bpc, category, time_range, order_by, page, category_value,
           time_value, order_value, clientCalls, bresult, errorLog>>

hkVars == <<hClass, hProgress, hCurrent, hTotal, hLast, hCalls>>

skVars == <<spc, overwrite, target, target0, pending, dirs, dirs0, walk, sret, prior>>

rlVars == <<clock, process, children, sp, mpc, hpc, now, last_restart, triggers>>

\* The functions and classes beside JmcomicService's tools.
toolVars == <<rsVars, brVars, hkVars, skVars, rlVars>>


\* The service's own state.
svcVars == <<cfgVars, dlVars, ldVars, ppVars, conVars>>

\* What resolve_option_path leaves alone.
notRs == <<svcVars, brVars, hkVars, skVars, rlVars>>

\* What browse_albums leaves alone.
notBr == <<svcVars, rsVars, hkVars, skVars, rlVars>>

\* What the downloader's hooks leave alone.
notHk == <<svcVars, rsVars, brVars, skVars, rlVars>>

\* What the reloader leaves alone.
notRl == <<svcVars, rsVars, brVars, hkVars, skVars>>

\* What the skills command leaves alone.
notSk == <<svcVars, rsVars, brVars, hkVars, rlVars>>

otherVars == <<ldVars, ppVars, conVars, toolVars>>

vars == <<cfgVars, dlVars, otherVars>>

\* ------------------------------------------------------------------------
\* Bounds
\* ------------------------------------------------------------------------
MaxCalls == 2
\* _load_option calls in a run (the constructor's, then reload_option's)
MaxLoads == 2

\* An album has at most MaxChapters chapters of at most MaxPages images and
\* at most MaxImages images in all; the library runs at most MaxThreads image
\* threads at a time.
MaxChapters == 2

MaxImages == 3

MaxPages == 2

MaxThreads == 2

\* ------------------------------------------------------------------------
\* Settings documents: a python dict is a function from keys to values; a
\* value is a leaf (a string or a number, kept as a string) or a nested dict.
\* ------------------------------------------------------------------------
Leaf(v) == [t |-> "leaf", v |-> v]

Dict(f) == [t |-> "dict", d |-> f]

IsDict(x) == x.t = "dict"

EmptyDict == <<>>

\* JmOption.merge_default_dict(user_dict, default_dict): every key of
\* user_dict is written onto default_dict; where both sides hold a dict the
\* two are merged key by key, otherwise the user's value replaces the old one.
RECURSIVE merge_default_dict(_, _)
merge_default_dict(user_dict, default_dict) ==
    [k \in (DOMAIN user_dict) \cup (DOMAIN default_dict) |->
        IF k \in DOMAIN user_dict
        THEN IF /\ IsDict(user_dict[k])
                /\ k \in DOMAIN default_dict
                /\ IsDict(default_dict[k])
             THEN Dict(merge_default_dict(user_dict[k].d, default_dict[k].d))
             ELSE user_dict[k]
        ELSE default_dict[k]]

\* The top-level keys of the settings schema.
OptionKeys == {"client", "download", "dir_rule", "plugins"}

\* JmOption.construct validates the document as a whole: a key the schema
\* does not know is rejected.
Valid(doc) == DOMAIN doc \subseteq OptionKeys

\* JmOption.construct(dict) on a valid dict: the document built from it.
construct(doc) == doc

\* JmOption.deconstruct(): the document as a dict of its own.
deconstruct(opt) == opt

\* JmOption.to_file(path) completed: the file holds the document.
FileOk(doc) == [st |-> "ok", doc |-> doc]

\* A file cut short by a write that failed part-way: it does not parse.
FileMalformed == [st |-> "malformed", doc |-> EmptyDict]

FileAbsent == [st |-> "absent", doc |-> EmptyDict]

\* create_option_by_file(path) on a well-formed file.
create_option_by_file(f) == f.doc

\* JmModuleConfig.option_class().default()
DefaultOption ==
    ("client" :> Dict("impl" :> Leaf("api")))
    @@ ("download" :> Dict(("cache" :> Leaf("true"))
                           @@ ("threading" :> Dict(("image" :> Leaf("30"))
                                                   @@ ("photo" :> Leaf("8"))))))

\* A valid document that has no download.threading key.
NoThreadingOption ==
    ("client" :> Dict("impl" :> Leaf("html")))
    @@ ("download" :> Dict(("cache" :> Leaf("true"))
                           @@ ("image" :> Dict("suffix" :> Leaf(".jpg")))))

BaseDocs == {DefaultOption, NoThreadingOption}

\* The arguments update_option is called with.
UpdThreadingImage == Dict("download" :> Dict("threading" :> Dict("image" :> Leaf("50"))))

UpdDocExample ==
    Dict(("client" :> Dict("impl" :> Leaf("api")))
         @@ ("download" :> Dict("threading" :> Dict("image" :> Leaf("50")))))

UpdLeafOverDict == Dict("download" :> Dict("threading" :> Leaf("5")))

UpdUnknownKey == Dict(("bogus" :> Leaf("1")) @@ ("download" :> Dict("cache" :> Leaf("false"))))

UpdNotADict == Leaf("oops")

Updates == {UpdThreadingImage, UpdDocExample, UpdLeafOverDict, UpdUnknownKey,
            UpdNotADict, Dict(EmptyDict)}

\* ------------------------------------------------------------------------
\* JmcomicService._load_option (core.py:82-95): what it returns, whether it
\* raises, and the file it leaves.
\* ------------------------------------------------------------------------
LoadOption(f) ==
    IF f.st = "absent"
    THEN [raised |-> FALSE, option |-> DefaultOption, file |-> FileOk(DefaultOption)]
    ELSE IF f.st = "malformed"
    THEN [raised |-> TRUE, option |-> EmptyDict, file |-> f]
    ELSE [raised |-> FALSE, option |-> create_option_by_file(f), file |-> f]

\* ------------------------------------------------------------------------
\* update_option, statement by statement
\* ------------------------------------------------------------------------
\* The except clause of update_option (core.py:190-192): the exception of
\* step `step` becomes the returned failure message.
UpdExcept(step) ==
    /\ upc' = "done"
    /\ upRet' = "failed"
    /\ upFailedAt' = step

\* The tool is called; statement 1: current_option = self.option.deconstruct()
UpdateOptionCall(u) ==
    /\ upc = "idle"
    /\ calls < MaxCalls
    /\ calls' = calls + 1
    /\ upc' = "merge"
    /\ option_updates' = u
    /\ current_option' = deconstruct(option)
    /\ merged_option' = EmptyDict
    /\ new_option' = EmptyDict
    /\ upRet' = "none"
    /\ upFailedAt' = "none"
    /\ upHist' = [option |-> option, client |-> client, file |-> optFile]
    /\ UNCHANGED <<option, client, optFile>>
    /\ UNCHANGED <<dlVars, otherVars>>

\* Mutant of MergedOption: the two arguments the wrong way round, so the old
\* values win over the update.
MergedOptionSwapped(updates, current) == merge_default_dict(current, updates)

\* The merge as update_option calls it (core.py:176).
MergedOption(updates, current) == merge_default_dict(updates, current)

\* Mutant of UpdMerge: the merge is done in place on the live settings object
\* instead of on the copy deconstruct() returned.
UpdMergeInPlace ==
    /\ upc = "merge"
    /\ IF IsDict(option_updates)
       THEN /\ merged_option' = MergedOption(option_updates.d, current_option)
            /\ option' = MergedOption(option_updates.d, current_option)
            /\ upc' = "construct"
            /\ UNCHANGED <<upRet, upFailedAt>>
       ELSE /\ UpdExcept("merge")
            /\ UNCHANGED <<merged_option, option>>
    /\ UNCHANGED <<client, optFile, option_updates, current_option,
                   new_option, upHist, calls>>
    /\ UNCHANGED <<dlVars, otherVars>>

\* Statement 2: merged_option = JmOption.merge_default_dict(option_updates, current_option)
UpdMerge ==
    /\ upc = "merge"
    /\ IF IsDict(option_updates)
       THEN /\ merged_option' = MergedOption(option_updates.d, current_option)
            /\ upc' = "construct"
            /\ UNCHANGED <<upRet, upFailedAt>>
       ELSE /\ UpdExcept("merge")
            /\ UNCHANGED merged_option
    /\ UNCHANGED <<option, client, optFile, option_updates, current_option,
                   new_option, upHist, calls>>
    /\ UNCHANGED <<dlVars, otherVars>>

\* Mutant of UpdConstruct: the merged dict is saved before it is validated.
UpdConstructSavesFirst ==
    /\ upc = "construct"
    /\ optFile' = FileOk(merged_option)
    /\ IF Valid(merged_option)
       THEN /\ new_option' = construct(merged_option)
            /\ upc' = "to_file"
            /\ UNCHANGED <<upRet, upFailedAt>>
       ELSE /\ UpdExcept("construct")
            /\ UNCHANGED new_option
    /\ UNCHANGED <<option, client, option_updates, current_option,
                   merged_option, upHist, calls>>
    /\ UNCHANGED <<dlVars, otherVars>>

\* Statement 3: new_option = JmOption.construct(merged_option)
UpdConstruct ==
    /\ upc = "construct"
    /\ IF Valid(merged_option)
       THEN /\ new_option' = construct(merged_option)
            /\ upc' = "to_file"
            /\ UNCHANGED <<upRet, upFailedAt>>
       ELSE /\ UpdExcept("construct")
            /\ UNCHANGED new_option
    /\ UNCHANGED <<option, client, optFile, option_updates, current_option,
                   merged_option, upHist, calls>>
    /\ UNCHANGED <<dlVars, otherVars>>

\* Mutant of UpdToFile: swap-then-persist, the in-memory option is replaced
\* before the write, which may still fail.
UpdToFileSwapsFirst ==
    /\ upc = "to_file"
    /\ option' = new_option
    /\ \E out \in {"written", "not_opened", "cut_short"} :
          IF out = "written"
          THEN /\ optFile' = FileOk(new_option)
               /\ upc' = "reload"
               /\ UNCHANGED <<upRet, upFailedAt>>
          ELSE /\ optFile' = IF out = "cut_short" THEN FileMalformed ELSE optFile
               /\ UpdExcept("to_file")
    /\ UNCHANGED <<client, option_updates, current_option,
                   merged_option, new_option, upHist, calls>>
    /\ UNCHANGED <<dlVars, otherVars>>

\* Statement 4: new_option.to_file(str(self.option_path)). The write
\* completes, or fails before touching the file, or fails part-way.
UpdToFile ==
    /\ upc = "to_file"
    /\ \E out \in {"written", "not_opened", "cut_short"} :
          IF out = "written"
          THEN /\ optFile' = FileOk(new_option)
               /\ upc' = "reload"
               /\ UNCHANGED <<upRet, upFailedAt>>
          ELSE /\ optFile' = IF out = "cut_short" THEN FileMalformed ELSE optFile
               /\ UpdExcept("to_file")
    /\ UNCHANGED <<option, client, option_updates, current_option,
                   merged_option, new_option, upHist, calls>>
    /\ UNCHANGED <<dlVars, otherVars>>

\* A variant of the re-load that checks the file but keeps the document in
\* memory (as if update_option ended after to_file, without reload_option's
\* assignment).
UpdReloadLoadKeepsMemory ==
    /\ upc = "reload"
    /\ \E readable \in BOOLEAN :
          LET r == LoadOption(optFile) IN
          IF readable /\ ~r.raised
          THEN /\ upc' = "build"
               /\ UNCHANGED <<option, optFile, upRet, upFailedAt>>
          ELSE /\ UpdExcept("reload")
               /\ UNCHANGED <<option, optFile>>
    /\ UNCHANGED <<client, option_updates, current_option, merged_option,
                   new_option, upHist, calls>>
    /\ UNCHANGED <<dlVars, otherVars>>

\* Statement 5, first half: reload_option's self.option = self._load_option()
\* (core.py:146). Reading the file may fail.
UpdReloadLoad ==
    /\ upc = "reload"
    /\ \E readable \in BOOLEAN :
          LET r == LoadOption(optFile) IN
          IF readable /\ ~r.raised
          THEN /\ option' = r.option
               /\ optFile' = r.file
               /\ upc' = "build"
               /\ UNCHANGED <<upRet, upFailedAt>>
          ELSE /\ UpdExcept("reload")
               /\ UNCHANGED <<option, optFile>>
    /\ UNCHANGED <<client, option_updates, current_option, merged_option,
                   new_option, upHist, calls>>
    /\ UNCHANGED <<dlVars, otherVars>>

\* Statement 5, second half: reload_option's
\* self.client = self.option.build_jm_client() (core.py:147), which may raise;
\* then the success message (core.py:187-188).
UpdReloadBuild ==
    /\ upc = "build"
    /\ \E built \in BOOLEAN :
          IF built
          THEN /\ client' = option
               /\ upc' = "done"
               /\ upRet' = "updated"
               /\ UNCHANGED upFailedAt
          ELSE /\ UpdExcept("build")
               /\ UNCHANGED client
    /\ UNCHANGED <<option, optFile, option_updates, current_option,
                   merged_option, new_option, upHist, calls>>
    /\ UNCHANGED <<dlVars, otherVars>>

\* The caller has the message; the service is ready for the next call.
UpdReturn ==
    /\ upc = "done"
    /\ upc' = "idle"
    /\ UNCHANGED <<option, client, optFile, option_updates, current_option,
                   merged_option, new_option, upRet, upFailedAt, upHist, calls>>
    /\ UNCHANGED <<dlVars, otherVars>>

\* After JmcomicService.__init__ (core.py:75-80): the option is loaded, the
\* file exists and holds it, the client is built from it.
InitOption ==
    /\ option \in BaseDocs
    /\ client = option
    /\ optFile = FileOk(option)
    /\ upc = "idle"
    /\ option_updates = Dict(EmptyDict)
    /\ current_option = EmptyDict
    /\ merged_option = EmptyDict
    /\ new_option = EmptyDict
    /\ upRet = "none"
    /\ upFailedAt = "none"
    /\ upHist = [option |-> option, client |-> client, file |-> optFile]
    /\ calls = 0

NextOption ==
    \/ \E u \in Updates : UpdateOptionCall(u)
    \/ UpdMerge
    \/ UpdConstruct
    \/ UpdToFile
    \/ UpdReloadLoad
    \/ UpdReloadBuild
    \/ UpdReturn

\* ------------------------------------------------------------------------
\* _load_option, statement by statement, as called by __init__ (core.py:78)
\* and by reload_option (core.py:146); the file may be changed from outside
\* between two loads.
\* ------------------------------------------------------------------------
upVars == <<upc, option_updates, current_option, merged_option, new_option,
            upRet, upFailedAt, upHist, calls>>

\* The files the option path may hold when a load begins.
OptionFiles == {FileAbsent, FileMalformed} \cup {FileOk(d) : d \in BaseDocs}

\* The record a finished load leaves in loadLog.
LoadRecord(raised) ==
    [caller |-> lcaller, start |-> lstart, raised |-> raised, doc |-> lret,
     wrote |-> lwrote, clean |-> ~touched, file |-> optFile,
     dir |-> parentDir]

\* Mutant of LoadCall: the default is generated whether or not the file exists.
LoadCallAlwaysGenerates(c) ==
    /\ lpc = "idle"
    /\ Len(loadLog) < MaxLoads
    /\ c = (IF svc = "ready" THEN "reload" ELSE "init")
    /\ lcaller' = c
    /\ lstart' = optFile
    /\ lret' = EmptyDict
    /\ lwrote' = FALSE
    /\ lpc' = "mkdir"
    /\ UNCHANGED <<parentDir, touched, loadLog, svc>>
    /\ UNCHANGED <<option, client, optFile, upVars, dlVars, ppVars, conVars, toolVars>>

\* _load_option is entered and tests self.option_path.exists()
\* (core.py:83-84). __init__ calls it on a service not yet built,
\* reload_option on a built one.
LoadCall(c) ==
    /\ lpc = "idle"
    /\ Len(loadLog) < MaxLoads
    /\ c = (IF svc = "ready" THEN "reload" ELSE "init")
    /\ lcaller' = c
    /\ lstart' = optFile
    /\ lret' = EmptyDict
    /\ lwrote' = FALSE
    /\ lpc' = (IF optFile.st = "absent" THEN "mkdir" ELSE "read")
    /\ UNCHANGED <<parentDir, touched, loadLog, svc>>
    /\ UNCHANGED <<option, client, optFile, upVars, dlVars, ppVars, conVars, toolVars>>

\* self.option_path.parent.mkdir(parents=True, exist_ok=True) (core.py:87):
\* an existing directory is accepted; creating one may fail.
LoadMkdir ==
    /\ lpc = "mkdir"
    /\ \E made \in BOOLEAN :
          IF made \/ parentDir
          THEN /\ parentDir' = TRUE
               /\ lpc' = "to_file"
          ELSE /\ lpc' = "raised"
               /\ UNCHANGED parentDir
    /\ UNCHANGED <<lcaller, lstart, lret, lwrote, touched, loadLog, svc>>
    /\ UNCHANGED <<option, client, optFile, upVars, dlVars, ppVars, conVars, toolVars>>

\* Mutant of LoadWriteDefault: the default is returned and never written.
LoadWriteDefaultSkipsFile ==
    /\ lpc = "to_file"
    /\ lret' = DefaultOption
    /\ lpc' = "returned"
    /\ UNCHANGED <<lcaller, parentDir, lstart, lwrote, touched, loadLog, svc>>
    /\ UNCHANGED <<option, client, optFile, upVars, dlVars, ppVars, conVars, toolVars>>

\* default_option = JmModuleConfig.option_class().default();
\* default_option.to_file(path); return default_option (core.py:88-91).
\* The write may fail before the file is opened, or part-way through it.
LoadWriteDefault ==
    /\ lpc = "to_file"
    /\ lwrote' = TRUE
    /\ \E outcome \in {"written", "not_opened", "cut_short"} :
          CASE outcome = "written" ->
                 /\ optFile' = FileOk(DefaultOption)
                 /\ lret' = DefaultOption
                 /\ lpc' = "returned"
            [] outcome = "not_opened" ->
                 /\ lpc' = "raised"
                 /\ UNCHANGED <<optFile, lret>>
            [] outcome = "cut_short" ->
                 /\ optFile' = FileMalformed
                 /\ lpc' = "raised"
                 /\ UNCHANGED lret
    /\ UNCHANGED <<lcaller, parentDir, lstart, touched, loadLog, svc>>
    /\ UNCHANGED <<option, client, upVars, dlVars, ppVars, conVars, toolVars>>

\* Mutant of LoadRead: a file that cannot be parsed is replaced by a default.
LoadReadFallsBack ==
    /\ lpc = "read"
    /\ IF optFile.st = "ok"
       THEN /\ lret' = create_option_by_file(optFile)
            /\ lpc' = "returned"
       ELSE /\ lpc' = "mkdir"
            /\ UNCHANGED lret
    /\ UNCHANGED <<lcaller, parentDir, lstart, lwrote, touched, loadLog, svc>>
    /\ UNCHANGED <<option, client, optFile, upVars, dlVars, ppVars, conVars, toolVars>>

\* option = create_option_by_file(path); return option (core.py:93-95).
\* No try surrounds the call: what it raises leaves _load_option.
LoadRead ==
    /\ lpc = "read"
    /\ \E readable \in BOOLEAN :
          IF readable /\ optFile.st = "ok"
          THEN /\ lret' = create_option_by_file(optFile)
               /\ lpc' = "returned"
          ELSE /\ lpc' = "raised"
               /\ UNCHANGED lret
    /\ UNCHANGED <<lcaller, parentDir, lstart, lwrote, touched, loadLog, svc>>
    /\ UNCHANGED <<option, client, optFile, upVars, dlVars, ppVars, conVars, toolVars>>

\* The caller's assignment self.option = self._load_option()
\* (core.py:78, core.py:146).
LoadReturns ==
    /\ lpc = "returned"
    /\ option' = lret
    /\ loadLog' = Append(loadLog, LoadRecord(FALSE))
    /\ touched' = FALSE
    /\ lpc' = "build"
    /\ UNCHANGED <<lcaller, parentDir, lstart, lret, lwrote, svc>>
    /\ UNCHANGED <<client, optFile, upVars, dlVars, ppVars, conVars, toolVars>>

\* self.client = self.option.build_jm_client() (core.py:79, core.py:147),
\* which may raise: __init__ then yields no service.
LoadBuild ==
    /\ lpc = "build"
    /\ \E built \in BOOLEAN :
          IF built
          THEN /\ client' = option
               /\ svc' = "ready"
          ELSE /\ svc' = (IF lcaller = "init" THEN "init_failed" ELSE svc)
               /\ UNCHANGED client
    /\ lpc' = "idle"
    /\ UNCHANGED <<lcaller, parentDir, lstart, lret, lwrote, touched, loadLog>>
    /\ UNCHANGED <<option, optFile, upVars, dlVars, ppVars, conVars, toolVars>>

\* The exception leaves _load_option and its caller (core.py:78 and
\* core.py:146 have no try): nothing is assigned.
LoadRaises ==
    /\ lpc = "raised"
    /\ loadLog' = Append(loadLog, LoadRecord(TRUE))
    /\ touched' = FALSE
    /\ svc' = (IF lcaller = "init" THEN "init_failed" ELSE svc)
    /\ lpc' = "idle"
    /\ UNCHANGED <<lcaller, parentDir, lstart, lret, lwrote>>
    /\ UNCHANGED <<option, client, optFile, upVars, dlVars, ppVars, conVars, toolVars>>

\* Somebody else edits, replaces or removes the option file between two loads.
ExternalChange(f, dir) ==
    /\ lpc = "idle"
    /\ Len(loadLog) < MaxLoads
    /\ f # optFile
    /\ f.st # "absent" => dir
    /\ optFile' = f
    /\ parentDir' = dir
    /\ touched' = TRUE
    /\ UNCHANGED <<lpc, lcaller, lstart, lret, lwrote, loadLog, svc>>
    /\ UNCHANGED <<option, client, upVars, dlVars, ppVars, conVars, toolVars>>

\* No load has been called or is under way: the state of these variables in
\* a service that was constructed.
LoadAtRest ==
    /\ lpc = "idle"
    /\ lcaller = "init"
    /\ parentDir = TRUE
    /\ lstart = FileAbsent
    /\ lret = EmptyDict
    /\ lwrote = FALSE
    /\ touched = FALSE
    /\ loadLog = <<>>
    /\ svc = "ready"

\* Before JmcomicService(option_path) is called: no option, no client; the
\* path may hold any file, or none, with or without its parent directory.
InitLoad ==
    /\ option = EmptyDict
    /\ client = EmptyDict
    /\ optFile \in OptionFiles
    /\ parentDir \in BOOLEAN
    /\ optFile.st # "absent" => parentDir
    /\ upc = "idle"
    /\ option_updates = Dict(EmptyDict)
    /\ current_option = EmptyDict
    /\ merged_option = EmptyDict
    /\ new_option = EmptyDict
    /\ upRet = "none"
    /\ upFailedAt = "none"
    /\ upHist = [option |-> option, client |-> client, file |-> optFile]
    /\ calls = 0
    /\ lpc = "idle"
    /\ lcaller = "init"
    /\ lstart = FileAbsent
    /\ lret = EmptyDict
    /\ lwrote = FALSE
    /\ touched = FALSE
    /\ loadLog = <<>>
    /\ svc = "none"

NextLoad ==
    \/ \E c \in {"init", "reload"} : LoadCall(c)
    \/ LoadMkdir
    \/ LoadWriteDefault
    \/ LoadRead
    \/ LoadReturns
    \/ LoadBuild
    \/ LoadRaises
    \/ \E f \in OptionFiles, dir \in BOOLEAN : ExternalChange(f, dir)

\* ------------------------------------------------------------------------
\* Downloads: what the content client and the library report
\* ------------------------------------------------------------------------
\* The album the content client returns: the number of images of each chapter.
RECURSIVE SumOf(_)
SumOf(a) == IF a = <<>> THEN 0 ELSE Head(a) + SumOf(Tail(a))

AlbumShapes ==
    { a \in UNION { [1..n -> 0..MaxPages] : n \in 1..MaxChapters } :
        SumOf(a) <= MaxImages }

\* The chapter download_photo is asked for: its number of images.
PhotoShapes == { <<n>> : n \in 0..MaxPages }

\* ctx: no context, a working one, one whose hand-off raises at once, one
\* whose coroutine fails when the loop runs it.
CtxModes == {"none", "ok", "raises", "fails_later"}

AlbumId == "123"

NoResult == [status |-> "none"]

NoPath == <<>>

FreeSlot == [pc |-> "free", ch |-> 0, tmp |-> 0, current |-> 0, total |-> 0]

Slots == 1..MaxThreads

ChaptersOf(a) == 1..Len(a)

\* self.option.dir_rule.decide_album_root_dir(album): a path made from the
\* settings and the album.
decide_album_root_dir(opt, id) ==
    <<IF "dir_rule" \in DOMAIN opt THEN "custom_base" ELSE "base", id>>

\* self.option.decide_image_save_dir(photo)
decide_image_save_dir(opt, id) ==
    <<IF "dir_rule" \in DOMAIN opt THEN "custom_base" ELSE "base", id, "photo">>

\* str(e) of the exception a failed download or a failed read raises.
ErrDownload == "download failed"

ErrRead == "read failed"

\* The worker has every per-chapter structure of a fresh downloader
\* (McpProgressDownloader.__init__, core.py:471-474;
\* McpPhotoProgressDownloader.__init__, core.py:592-595).
WorkerStarts(a) ==
    /\ wpc' = "not_started"
    /\ chSt' = [ch \in ChaptersOf(a) |-> "pending"]
    /\ remaining' = [ch \in ChaptersOf(a) |-> a[ch]]
    /\ afterImages' = [ch \in ChaptersOf(a) |-> 0]
    /\ slots' = [s \in Slots |-> FreeSlot]
    /\ photo_progress' = <<>>
    /\ lock' = 0
    /\ pcurrent' = 0
    /\ ptotal' = 0
    /\ engineFailed' = FALSE
    /\ hookRaised' = FALSE
    /\ logged' = [ch \in ChaptersOf(a) |-> <<>>]
    /\ pendingNotes' = FALSE
    /\ noteFailed' = FALSE
    /\ warnings' = 0
    /\ usedOption' = EmptyDict

\* Mutant of safe_ctx_call: no try/except around the hand-off.
safe_ctx_call_unguarded(c) ==
    IF c = "none" THEN "skipped"
    ELSE IF c = "raises" THEN "raised"
    ELSE "scheduled"

\* safe_ctx_call of download_album (core.py:461-467): nothing without a ctx;
\* otherwise the coroutine is scheduled on the loop and its future dropped,
\* and an exception of the hand-off is caught and logged as a warning.
safe_ctx_call(c) ==
    IF c = "none" THEN "skipped"
    ELSE IF c = "raises" THEN "caught"
    ELSE "scheduled"

\* Mutant of photo_safe_ctx_call: no try/except around the hand-off.
photo_safe_ctx_call_unguarded(c) ==
    IF c = "none" THEN "skipped"
    ELSE IF c = "raises" THEN "raised"
    ELSE "scheduled"

\* safe_ctx_call of download_photo (core.py:582-588), the same function.
photo_safe_ctx_call(c) ==
    IF c = "none" THEN "skipped"
    ELSE IF c = "raises" THEN "caught"
    ELSE "scheduled"

\* What n hand-offs with outcome `out` leave behind. An exception that
\* leaves the hook is the library's to handle: the download fails.
CtxEffect(out, n) ==
    /\ pendingNotes' = (pendingNotes \/ out = "scheduled")
    /\ warnings' = warnings + (IF out = "caught" THEN n ELSE 0)
    /\ hookRaised' = (hookRaised \/ out = "raised")
    /\ UNCHANGED noteFailed

\* The lowest free image thread.
FreeSlotIs(s) ==
    /\ slots[s].pc = "free"
    /\ \A t \in Slots : t < s => slots[t].pc # "free"

NoImageRunning(ch) == \A s \in Slots : slots[s].ch # ch

\* ------------------------------------------------------------------------
\* download_album (core.py:428-556)
\* ------------------------------------------------------------------------
\* The tool is called; album = self.get_client().get_album_detail(album_id)
\* (core.py:452) returns the album or raises, outside any try.
DownloadAlbumCall(c, a) ==
    /\ dpc = "idle"
    /\ dkind' = "album"
    /\ ctx' = c
    /\ \E fetched \in BOOLEAN :
          IF fetched
          THEN /\ album' = a
               /\ dpc' = "decide_dir"
          ELSE /\ album' = album
               /\ dpc' = "raised"
    /\ UNCHANGED <<target_path, result, postRead, workerVars, noteVars>>
    /\ UNCHANGED <<cfgVars, otherVars, usedOption>>

\* target_path = self.option.dir_rule.decide_album_root_dir(album)
\* (core.py:454), outside any try; then the definitions, and
\* asyncio.to_thread(_blocking_download) starts the worker (core.py:543).
AlbumDecideDir ==
    /\ dkind = "album"
    /\ dpc = "decide_dir"
    /\ \E decided \in BOOLEAN :
          IF decided
          THEN /\ target_path' = decide_album_root_dir(option, AlbumId)
               /\ dpc' = "offloaded"
               /\ WorkerStarts(album)
          ELSE /\ dpc' = "raised"
               /\ UNCHANGED <<target_path, workerVars, noteVars, usedOption>>
    /\ UNCHANGED <<dkind, ctx, album, result, postRead>>
    /\ UNCHANGED <<cfgVars, otherVars>>

\* The library's own first fetch fails: _blocking_download raises before any
\* hook has run (core.py:533-537, core.py:640-644).
WorkerFetchFails ==
    /\ dpc = "offloaded"
    /\ wpc = "not_started"
    /\ wpc' = "ended"
    /\ engineFailed' = TRUE
    /\ UNCHANGED <<callVars, chSt, remaining, afterImages, slots, photo_progress, lock,
                   pcurrent, ptotal, hookRaised, noteVars>>
    /\ usedOption' = option
    /\ UNCHANGED <<cfgVars, otherVars>>

\* McpProgressDownloader.before_album (core.py:476-490)
AlbumBeforeAlbum ==
    /\ dkind = "album"
    /\ dpc = "offloaded"
    /\ wpc = "not_started"
    /\ wpc' = "photos"
    /\ CtxEffect(safe_ctx_call(ctx), 1)
    /\ UNCHANGED <<callVars, chSt, remaining, afterImages, slots, photo_progress, lock,
                   pcurrent, ptotal, engineFailed, logged>>
    /\ usedOption' = option
    /\ UNCHANGED <<cfgVars, otherVars>>

\* McpProgressDownloader.before_photo (core.py:498-508): the chapter's entry
\* is written under the lock.
AlbumBeforePhoto(ch) ==
    /\ dkind = "album"
    /\ wpc = "photos"
    /\ chSt[ch] = "pending"
    /\ lock = 0
    /\ photo_progress' = (ch :> [current |-> 0, total |-> album[ch]]) @@ photo_progress
    /\ chSt' = [chSt EXCEPT ![ch] = "running"]
    /\ CtxEffect(safe_ctx_call(ctx), 1)
    /\ UNCHANGED <<callVars, wpc, remaining, afterImages, slots, lock, pcurrent, ptotal,
                   engineFailed, logged>>
    /\ UNCHANGED <<cfgVars, otherVars, usedOption>>

\* The library fails to fetch a chapter: its hooks never run.
EnginePhotoFails(ch) ==
    /\ dkind = "album"
    /\ wpc = "photos"
    /\ chSt[ch] = "pending"
    /\ chSt' = [chSt EXCEPT ![ch] = "failed"]
    /\ engineFailed' = TRUE
    /\ UNCHANGED <<callVars, wpc, remaining, afterImages, slots, photo_progress, lock,
                   pcurrent, ptotal, hookRaised, noteVars>>
    /\ UNCHANGED <<cfgVars, otherVars, usedOption>>

\* An image thread has saved an image of a running chapter and calls
\* after_image (core.py:510, core.py:617).
ImageSaved(ch, s) ==
    /\ wpc = "photos"
    /\ chSt[ch] = "running"
    /\ remaining[ch] > 0
    /\ FreeSlotIs(s)
    /\ remaining' = [remaining EXCEPT ![ch] = @ - 1]
    /\ afterImages' = [afterImages EXCEPT ![ch] = @ + 1]
    /\ slots' = [slots EXCEPT ![s] =
                    [FreeSlot EXCEPT !.ch = ch,
                                     !.pc = IF dkind = "album" THEN "enter" ELSE "rd"]]
    /\ UNCHANGED <<callVars, wpc, chSt, photo_progress, lock, pcurrent, ptotal,
                   engineFailed, hookRaised, noteVars>>
    /\ UNCHANGED <<cfgVars, otherVars, usedOption>>

\* The library fails to download an image: no after_image for it.
ImageFails(ch) ==
    /\ wpc = "photos"
    /\ chSt[ch] = "running"
    /\ remaining[ch] > 0
    /\ remaining' = [remaining EXCEPT ![ch] = @ - 1]
    /\ engineFailed' = TRUE
    /\ UNCHANGED <<callVars, wpc, chSt, afterImages, slots, photo_progress, lock, pcurrent,
                   ptotal, hookRaised, noteVars>>
    /\ UNCHANGED <<cfgVars, otherVars, usedOption>>

\* Mutant of AfterImageMayEnter: the counter is updated without the lock.
AfterImageEntersUnlocked == TRUE

\* `with self.lock:` of after_image (core.py:517): the thread waits for the lock.
AfterImageMayEnter == lock = 0

\* after_image, core.py:517-519: the lock is taken and the chapter's counter read.
AfterImageLock(s) ==
    /\ slots[s].pc = "enter"
    /\ AfterImageMayEnter
    /\ lock' = s
    /\ slots' = [slots EXCEPT ![s].pc = "store",
                              ![s].tmp = IF slots[s].ch \in DOMAIN photo_progress
                                         THEN photo_progress[slots[s].ch].current
                                         ELSE 0]
    /\ UNCHANGED <<callVars, wpc, chSt, remaining, afterImages, photo_progress, pcurrent,
                   ptotal, engineFailed, hookRaised, noteVars>>
    /\ UNCHANGED <<cfgVars, otherVars, usedOption>>

\* after_image, core.py:519-521: the counter is written back, current and
\* total are taken, the lock is released.
AfterImageStore(s) ==
    /\ slots[s].pc = "store"
    /\ LET ch == slots[s].ch IN
       IF ch \in DOMAIN photo_progress
       THEN /\ photo_progress' = [photo_progress EXCEPT ![ch].current = slots[s].tmp + 1]
            /\ slots' = [slots EXCEPT ![s].pc = "emit",
                                      ![s].current = slots[s].tmp + 1,
                                      ![s].total = photo_progress[ch].total]
       ELSE /\ UNCHANGED photo_progress
            /\ slots' = [slots EXCEPT ![s].pc = "emit"]
    /\ lock' = 0
    /\ UNCHANGED <<callVars, wpc, chSt, remaining, afterImages, pcurrent, ptotal,
                   engineFailed, hookRaised, noteVars>>
    /\ UNCHANGED <<cfgVars, otherVars, usedOption>>

\* after_image, core.py:523-526: with a positive total the progress line is
\* logged and handed to the context; the hook returns.
AfterImageEmit(s) ==
    /\ slots[s].pc = "emit"
    /\ dkind = "album"
    /\ IF slots[s].total > 0
       THEN /\ logged' = [logged EXCEPT ![slots[s].ch] = Append(@, slots[s].current)]
            /\ CtxEffect(safe_ctx_call(ctx), 1)
       ELSE UNCHANGED <<logged, pendingNotes, noteFailed, warnings, hookRaised>>
    /\ slots' = [slots EXCEPT ![s] = FreeSlot]
    /\ UNCHANGED <<callVars, wpc, chSt, remaining, afterImages, photo_progress, lock,
                   pcurrent, ptotal, engineFailed>>
    /\ UNCHANGED <<cfgVars, otherVars, usedOption>>

\* A chapter is over: its fetch failed, or every image of it has been handled
\* (McpProgressDownloader has no after_photo of its own).
ChapterOver(ch) ==
    \/ chSt[ch] = "failed"
    \/ /\ chSt[ch] = "running"
       /\ remaining[ch] = 0
       /\ NoImageRunning(ch)

\* McpProgressDownloader.after_album (core.py:492-496); then
\* option.download_album returns, or raises what the library recorded.
AlbumAfterAlbum ==
    /\ dkind = "album"
    /\ wpc = "photos"
    /\ \A ch \in ChaptersOf(album) : ChapterOver(ch)
    /\ wpc' = "ended"
    /\ CtxEffect(safe_ctx_call(ctx), 1)
    /\ UNCHANGED <<callVars, chSt, remaining, afterImages, slots, photo_progress, lock,
                   pcurrent, ptotal, engineFailed, logged>>
    /\ UNCHANGED <<cfgVars, otherVars, usedOption>>

\* Mutant of AlbumResult: on failure the path is blanked, as download_photo does.
AlbumResultNoPath(raised) ==
    [status |-> IF raised THEN "failed" ELSE "success",
     album_id |-> AlbumId,
     title |-> "title-123",
     download_path |-> IF raised THEN NoPath ELSE target_path,
     error |-> IF raised THEN ErrDownload ELSE "None"]

\* The dict download_album returns (core.py:542-556), the worker having
\* raised or returned "success".
AlbumResult(raised) ==
    [status |-> IF raised THEN "failed" ELSE "success",
     album_id |-> AlbumId,
     title |-> "title-123",
     download_path |-> target_path,
     error |-> IF raised THEN ErrDownload ELSE "None"]

\* Mutant of AlbumJoin: the result is returned without awaiting the worker.
AlbumJoinWithoutAwait ==
    /\ dkind = "album"
    /\ dpc = "offloaded"
    /\ result' = AlbumResult(engineFailed \/ hookRaised)
    /\ dpc' = "returned"
    /\ UNCHANGED <<dkind, ctx, album, target_path, postRead, workerVars, noteVars>>
    /\ UNCHANGED <<cfgVars, otherVars, usedOption>>

\* await asyncio.to_thread(...) is over (core.py:543-548) and the result is
\* returned (core.py:550-556).
AlbumJoin ==
    /\ dkind = "album"
    /\ dpc = "offloaded"
    /\ wpc = "ended"
    /\ result' = AlbumResult(engineFailed \/ hookRaised)
    /\ dpc' = "returned"
    /\ UNCHANGED <<dkind, ctx, album, target_path, postRead, workerVars, noteVars>>
    /\ UNCHANGED <<cfgVars, otherVars, usedOption>>

\* The event loop, free while the call is suspended and after it is over,
\* runs the coroutines scheduled on it; what one raises stays in a future
\* nobody reads.
LoopRunsNotes ==
    /\ pendingNotes
    /\ dpc \in {"offloaded", "returned"}
    /\ pendingNotes' = FALSE
    /\ noteFailed' = (noteFailed \/ ctx = "fails_later")
    /\ UNCHANGED <<callVars, workerVars, logged, warnings>>
    /\ UNCHANGED <<cfgVars, otherVars, usedOption>>

\* ------------------------------------------------------------------------
\* download_photo (core.py:558-669)
\* ------------------------------------------------------------------------
\* The tool is called and asyncio.to_thread(_blocking_download) starts the
\* worker (core.py:650).
DownloadPhotoCall(c, a) ==
    /\ dpc = "idle"
    /\ dkind' = "photo"
    /\ ctx' = c
    /\ album' = a
    /\ dpc' = "offloaded"
    /\ WorkerStarts(a)
    /\ UNCHANGED <<target_path, result, postRead>>
    /\ UNCHANGED <<cfgVars, otherVars>>

\* McpPhotoProgressDownloader.before_photo (core.py:597-609)
PhotoBeforePhoto ==
    /\ dkind = "photo"
    /\ dpc = "offloaded"
    /\ wpc = "not_started"
    /\ wpc' = "photos"
    /\ ptotal' = album[1]
    /\ chSt' = [chSt EXCEPT ![1] = "running"]
    /\ CtxEffect(photo_safe_ctx_call(ctx), 1)
    /\ UNCHANGED <<callVars, remaining, afterImages, slots, photo_progress, lock, pcurrent,
                   engineFailed, logged>>
    /\ usedOption' = option
    /\ UNCHANGED <<cfgVars, otherVars>>

\* after_image, core.py:619, first half of self.current += 1: the read.
PhotoAfterImageRead(s) ==
    /\ slots[s].pc = "rd"
    /\ slots' = [slots EXCEPT ![s].pc = "wr", ![s].tmp = pcurrent]
    /\ UNCHANGED <<callVars, wpc, chSt, remaining, afterImages, photo_progress, lock,
                   pcurrent, ptotal, engineFailed, hookRaised, noteVars>>
    /\ UNCHANGED <<cfgVars, otherVars, usedOption>>

\* after_image, core.py:619, second half of self.current += 1: the write.
PhotoAfterImageWrite(s) ==
    /\ slots[s].pc = "wr"
    /\ pcurrent' = slots[s].tmp + 1
    /\ slots' = [slots EXCEPT ![s].pc = "emit"]
    /\ UNCHANGED <<callVars, wpc, chSt, remaining, afterImages, photo_progress, lock,
                   ptotal, engineFailed, hookRaised, noteVars>>
    /\ UNCHANGED <<cfgVars, otherVars, usedOption>>

\* after_image, core.py:621-634: the message is made from self.current and
\* self.total as they are now, and logged, with or without a total; with a
\* ctx it is handed over, and with a positive total the progress is reported
\* too; the hook returns.
PhotoAfterImageEmit(s) ==
    /\ slots[s].pc = "emit"
    /\ dkind = "photo"
    /\ logged' = [logged EXCEPT ![slots[s].ch] = Append(@, pcurrent)]
    /\ CtxEffect(photo_safe_ctx_call(ctx), IF ptotal > 0 THEN 2 ELSE 1)
    /\ slots' = [slots EXCEPT ![s] = FreeSlot]
    /\ UNCHANGED <<callVars, wpc, chSt, remaining, afterImages, photo_progress, lock,
                   pcurrent, ptotal, engineFailed>>
    /\ UNCHANGED <<cfgVars, otherVars, usedOption>>

\* McpPhotoProgressDownloader.after_photo (core.py:611-615); then
\* option.download_photo returns, or raises what the library recorded.
PhotoAfterPhoto ==
    /\ dkind = "photo"
    /\ wpc = "photos"
    /\ chSt[1] = "running"
    /\ remaining[1] = 0
    /\ NoImageRunning(1)
    /\ wpc' = "ended"
    /\ CtxEffect(photo_safe_ctx_call(ctx), 1)
    /\ UNCHANGED <<callVars, chSt, remaining, afterImages, slots, photo_progress, lock,
                   pcurrent, ptotal, engineFailed, logged>>
    /\ UNCHANGED <<cfgVars, otherVars, usedOption>>

\* A variant of PhotoFailed whose except clause leaves image_count at the
\* length the worker saw.
PhotoFailedKeepsCount(err) ==
    [status |-> "failed",
     photo_id |-> AlbumId,
     image_count |-> album[1],
     download_path |-> NoPath,
     error |-> err]

\* Mutant of PhotoFailed: the status of the finished download is kept when
\* the read after it fails.
PhotoFailedKeepsStatus(err) ==
    [status |-> IF err = ErrRead THEN "success" ELSE "failed",
     photo_id |-> AlbumId,
     image_count |-> 0,
     download_path |-> NoPath,
     error |-> err]

\* The except clause of download_photo (core.py:656-661) and the dict
\* returned after it (core.py:663-669).
PhotoFailed(err) ==
    [status |-> "failed",
     photo_id |-> AlbumId,
     image_count |-> 0,
     download_path |-> NoPath,
     error |-> err]

\* await asyncio.to_thread(...) is over (core.py:650): the worker raised,
\* which the except clause turns into the result, or returned "success".
PhotoJoin ==
    /\ dkind = "photo"
    /\ dpc = "offloaded"
    /\ wpc = "ended"
    /\ IF engineFailed \/ hookRaised
       THEN /\ result' = PhotoFailed(ErrDownload)
            /\ dpc' = "returned"
       ELSE /\ UNCHANGED result
            /\ dpc' = "post_read"
    /\ UNCHANGED <<dkind, ctx, album, target_path, postRead, workerVars, noteVars>>
    /\ UNCHANGED <<cfgVars, otherVars, usedOption>>

\* core.py:651-655 inside the try: get_photo_detail and
\* decide_image_save_dir, either of which may raise; then the result.
PhotoPostRead ==
    /\ dkind = "photo"
    /\ dpc = "post_read"
    /\ \E out \in {"read", "detail_raises", "dir_raises"} :
          /\ postRead' = out
          /\ result' = IF out = "read"
                       THEN [status |-> "success",
                             photo_id |-> AlbumId,
                             image_count |-> album[1],
                             download_path |-> decide_image_save_dir(option, AlbumId),
                             error |-> "None"]
                       ELSE PhotoFailed(ErrRead)
    /\ dpc' = "returned"
    /\ UNCHANGED <<dkind, ctx, album, target_path, workerVars, noteVars>>
    /\ UNCHANGED <<cfgVars, otherVars, usedOption>>

\* No download has been called yet.
InitDownload ==
    /\ dkind = "none"
    /\ dpc = "idle"
    /\ ctx = "none"
    /\ album = <<>>
    /\ target_path = NoPath
    /\ result = NoResult
    /\ postRead = "none"
    /\ wpc = "not_started"
    /\ chSt = <<>>
    /\ remaining = <<>>
    /\ afterImages = <<>>
    /\ slots = [s \in Slots |-> FreeSlot]
    /\ photo_progress = <<>>
    /\ lock = 0
    /\ pcurrent = 0
    /\ ptotal = 0
    /\ engineFailed = FALSE
    /\ hookRaised = FALSE
    /\ logged = <<>>
    /\ pendingNotes = FALSE
    /\ noteFailed = FALSE
    /\ warnings = 0
    /\ usedOption = EmptyDict

NextAlbum ==
    \/ \E c \in CtxModes, a \in AlbumShapes : DownloadAlbumCall(c, a)
    \/ AlbumDecideDir
    \/ WorkerFetchFails
    \/ AlbumBeforeAlbum
    \/ \E ch \in ChaptersOf(album) : AlbumBeforePhoto(ch)
    \/ \E ch \in ChaptersOf(album) : EnginePhotoFails(ch)
    \/ \E ch \in ChaptersOf(album), s \in Slots : ImageSaved(ch, s)
    \/ \E ch \in ChaptersOf(album) : ImageFails(ch)
    \/ \E s \in Slots : AfterImageLock(s)
    \/ \E s \in Slots : AfterImageStore(s)
    \/ \E s \in Slots : AfterImageEmit(s)
    \/ AlbumAfterAlbum
    \/ AlbumJoin
    \/ LoopRunsNotes

NextPhoto ==
    \/ \E c \in CtxModes, a \in PhotoShapes : DownloadPhotoCall(c, a)
    \/ WorkerFetchFails
    \/ PhotoBeforePhoto
    \/ \E s \in Slots : ImageSaved(1, s)
    \/ ImageFails(1)
    \/ \E s \in Slots : PhotoAfterImageRead(s)
    \/ \E s \in Slots : PhotoAfterImageWrite(s)
    \/ \E s \in Slots : PhotoAfterImageEmit(s)
    \/ PhotoAfterPhoto
    \/ PhotoJoin
    \/ PhotoPostRead
    \/ LoopRunsNotes

\* ------------------------------------------------------------------------
\* post_process (core.py:733-866): the album, the chapter directories on
\* disk, the plugin registry of the library, the plugin's path decision
\* ------------------------------------------------------------------------
\* A directory entry: its place in the sorted listing, its suffix as written,
\* and whether its name starts with a dot.
ImgA == [key |-> 1, suffix |-> ".jpg", dot |-> FALSE]

ImgB == [key |-> 2, suffix |-> ".PNG", dot |-> FALSE]

NoteFile == [key |-> 3, suffix |-> ".txt", dot |-> FALSE]

DotFile == [key |-> 0, suffix |-> ".jpg", dot |-> TRUE]

\* What may stand at a chapter's predicted directory: nothing, something that
\* is not a directory, or a directory with some entries.
ChapterDirs ==
    {[st |-> "absent", entries |-> {}], [st |-> "not_a_dir", entries |-> {}]}
    \cup {[st |-> "dir", entries |-> e] :
             e \in {{}, {NoteFile, DotFile}, {ImgB}, {ImgA, ImgB, NoteFile, DotFile}}}

\* The chapters of an album and what the disk holds for each.
Disks == UNION { [1..n -> ChapterDirs] : n \in 0..MaxChapters }

\* Mutant of lower: the suffix is compared as it stands on disk.
lowerUnchanged(s) == s

\* str.lower() on the suffixes in use.
lower(s) == IF s = ".PNG" THEN ".png" ELSE s

\* The test of core.py:777-780.
IsImage(file) ==
    /\ lower(file.suffix) \in {".jpg", ".jpeg", ".png", ".webp", ".gif"}
    /\ ~file.dot

\* sorted(photo_dir.iterdir()): the entries in the order of their names.
RECURSIVE sorted(_)
sorted(S) ==
    IF S = {} THEN <<>>
    ELSE LET first == CHOOSE f \in S : \A g \in S : f.key <= g.key
         IN  <<first>> \o sorted(S \ {first})

\* The list `images` of core.py:775-781 for one directory listing.
RECURSIVE ImagesOf(_)
ImagesOf(listing) ==
    IF listing = <<>> THEN <<>>
    ELSE (IF IsImage(Head(listing)) THEN <<Head(listing)>> ELSE <<>>)
         \o ImagesOf(Tail(listing))

\* JmModuleConfig.REGISTRY_PLUGIN: the post-processing plugins it holds.
REGISTRY_PLUGIN == {"zip", "img2pdf", "long_img"}

ProcessTypes == REGISTRY_PLUGIN \cup {"rar"}

\* dict.get(key, default)
Get(d, key, default) == IF key \in DOMAIN d THEN d[key] ELSE default

\* d[key] = value on a copy
Put(d, key, value) ==
    [k \in DOMAIN d \cup {key} |-> IF k = key THEN value ELSE d[k]]

\* The parameter of each plugin that names its output directory
\* (scripts/post_process.py:31-38).
OutDirKey(t) ==
    IF t = "zip" THEN "zip_dir" ELSE IF t = "img2pdf" THEN "pdf_dir" ELSE "img_dir"

\* The params a caller may hand to post_process for a process type; the
\* first stands for None.
NoParams == [none |-> "None"]

ParamsOf(t) ==
    {NoParams, EmptyDict,
     [dir_rule |-> "Bd/Aid"], [dir_rule |-> "Bd/Pid/Ptitle"],
     [filename_rule |-> "Aid"],
     Put(EmptyDict, OutDirKey(t), "out")}
    \cup (IF t = "zip"
          THEN {[level |-> "album"], [level |-> "photo"], [suffix |-> "cbz"],
                [level |-> "volume"]}
          ELSE {})

\* A rule that names a file or directory after the chapter.
PerChapter(rule) == rule \in {"Ptitle", "Pid", "Bd/Pid/Ptitle"}

\* The name of chapter `photo` (0: no chapter given) in a path.
ChapterName(photo) == IF photo = 0 THEN "None" ELSE ToString(photo)

\* plugin.decide_filepath(album, photo, filename_rule, suffix, base_dir,
\* dir_rule_dict): with a dir_rule the path is what the rule says and
\* base_dir is ignored; without, the file named by filename_rule and suffix
\* in base_dir, or in the working directory if base_dir is None.
decide_filepath(id, photo, filename_rule, suffix, base_dir, dir_rule_dict) ==
    IF dir_rule_dict # "None"
    THEN IF PerChapter(dir_rule_dict)
         THEN <<"Bd", ChapterName(photo), "Ptitle"  \o "." \o suffix>>
         ELSE <<"Bd", id \o "." \o suffix>>
    ELSE <<IF base_dir = "None" THEN "cwd" ELSE base_dir,
           (IF PerChapter(filename_rule) THEN ChapterName(photo) ELSE id)
               \o "." \o suffix>>

\* Path(p).resolve(): the working directory stands for "./".
resolve(p) == [i \in DOMAIN p |-> IF p[i] = "./" THEN "cwd" ELSE p[i]]

\* Path(p).parent
parent(p) == SubSeq(p, 1, Len(p) - 1)

\* The files plugin.invoke(**actual_params) writes, given the manifest: the
\* zip plugin one archive per chapter of the manifest (level 'photo', its
\* default) or one for the album; the others one file for the album. Each
\* plugin takes its path from decide_filepath with the parameters it was
\* pluginInvoked with.
PluginWrites(t, p, manifest) ==
    LET rule == p["filename_rule"]
        dr == Get(p, "dir_rule", "None")
    IN  IF t = "zip"
        THEN IF Get(p, "level", "photo") = "photo"
             THEN {resolve(decide_filepath(AlbumId, ch, rule, Get(p, "suffix", "zip"),
                                           Get(p, "zip_dir", "./"), dr)) :
                       ch \in DOMAIN manifest}
             ELSE {resolve(decide_filepath(AlbumId, 0, rule, Get(p, "suffix", "zip"),
                                           Get(p, "zip_dir", "./"), dr))}
        ELSE IF t = "img2pdf"
        THEN {resolve(decide_filepath(AlbumId, 0, rule, "pdf", Get(p, "pdf_dir", "None"), dr))}
        ELSE {resolve(decide_filepath(AlbumId, 0, rule, "png", Get(p, "img_dir", "None"), dr))}

\* plugin.invoke rejects a level it does not know.
PluginRejects(t, p) ==
    t = "zip" /\ Get(p, "level", "photo") \notin {"photo", "album"}

\* The messages of the three error results and of the success result: which
\* text, and the album, directory or exception text put into it.
NoImagesMessage == [text |-> "No downloaded images found for album", album |-> AlbumId,
                    root |-> NoPath, error |-> ""]

NotFoundMessage(t) == [text |-> "Plugin not found", album |-> "", root |-> NoPath,
                       error |-> t]

FailedMessage(e) == [text |-> "Post-process failed", album |-> "", root |-> NoPath,
                     error |-> e]

DoneMessage == [text |-> "completed successfully", album |-> "", root |-> NoPath,
                error |-> ""]

\* The dict post_process returns.
PpDict(status, path, isdir, msg) ==
    [status |-> status, album_id |-> AlbumId, process_type |-> process_type,
     output_path |-> path, is_directory |-> isdir, message |-> msg]

\* The except clause of post_process (core.py:857-866).
PpExcept(e) ==
    /\ ppResult' = PpDict("error", NoPath, FALSE, FailedMessage(e))
    /\ ppRaisedAt' = e
    /\ ppc' = "done"

\* post_process(album_id, process_type, params) is called on an album whose
\* chapters have `d` on disk.
PostProcessCall(d, t, p) ==
    /\ ppc = "idle"
    /\ disk' = d
    /\ process_type' = t
    /\ params' = p
    /\ ppc' = "fetch"
    /\ UNCHANGED <<albumFetched, ppi, photo_dict, actual_params, pluginBuilt, pluginInvoked,
                   wrote, ppResult, ppRaisedAt>>
    /\ UNCHANGED <<cfgVars, dlVars, ldVars, conVars, toolVars>>

\* Mutant of PpGetAlbumDetail: the fetch stands before the try.
PpGetAlbumDetailUnguarded ==
    /\ ppc = "fetch"
    /\ \E ok \in BOOLEAN :
          IF ok
          THEN /\ albumFetched' = TRUE
               /\ ppi' = 1
               /\ ppc' = "scan"
               /\ UNCHANGED <<ppResult, ppRaisedAt>>
          ELSE /\ ppc' = "raised"
               /\ ppRaisedAt' = "fetch failed"
               /\ UNCHANGED <<albumFetched, ppi, ppResult>>
    /\ UNCHANGED <<disk, process_type, params, photo_dict, actual_params,
                   pluginBuilt, pluginInvoked, wrote>>
    /\ UNCHANGED <<cfgVars, dlVars, ldVars, conVars, toolVars>>

\* album = self.get_client().get_album_detail(album_id) (core.py:759), inside
\* the try; photo_dict = {} (core.py:767).
PpGetAlbumDetail ==
    /\ ppc = "fetch"
    /\ \E ok \in BOOLEAN :
          IF ok
          THEN /\ albumFetched' = TRUE
               /\ ppi' = 1
               /\ ppc' = "scan"
               /\ UNCHANGED <<ppResult, ppRaisedAt>>
          ELSE /\ PpExcept("fetch failed")
               /\ UNCHANGED <<albumFetched, ppi>>
    /\ UNCHANGED <<disk, process_type, params, photo_dict, actual_params,
                   pluginBuilt, pluginInvoked, wrote>>
    /\ UNCHANGED <<cfgVars, dlVars, ldVars, conVars, toolVars>>

\* Mutant of PpScanChapter: a chapter is entered with whatever was collected.
PpScanChapterKeepsEmpty ==
    /\ ppc = "scan"
    /\ ppi <= Len(disk)
    /\ disk[ppi].st = "dir"
    /\ photo_dict' = [ch \in DOMAIN photo_dict \cup {ppi} |->
                          IF ch = ppi THEN ImagesOf(sorted(disk[ppi].entries))
                          ELSE photo_dict[ch]]
    /\ ppi' = ppi + 1
    /\ UNCHANGED <<ppc, ppResult, ppRaisedAt>>
    /\ UNCHANGED <<disk, process_type, params, albumFetched, actual_params, pluginBuilt,
                   pluginInvoked, wrote>>
    /\ UNCHANGED <<cfgVars, dlVars, ldVars, conVars, toolVars>>

\* One turn of `for photo in album` (core.py:770-785): the chapter's
\* directory is decided; an absent one is passed over; the entries of a
\* present one are listed in order and the images among them kept; the
\* chapter enters photo_dict if there is any. decide_image_save_dir may
\* raise, and iterdir raises on what is not a directory.
PpScanChapter ==
    /\ ppc = "scan"
    /\ ppi <= Len(disk)
    /\ \E decided \in BOOLEAN :
          IF ~decided
          THEN /\ PpExcept("save dir failed")
               /\ UNCHANGED <<photo_dict, ppi>>
          ELSE CASE disk[ppi].st = "absent" ->
                      /\ ppi' = ppi + 1
                      /\ UNCHANGED <<photo_dict, ppc, ppResult, ppRaisedAt>>
                 [] disk[ppi].st = "not_a_dir" ->
                      /\ PpExcept("not a directory")
                      /\ UNCHANGED <<photo_dict, ppi>>
                 [] disk[ppi].st = "dir" ->
                      LET images == ImagesOf(sorted(disk[ppi].entries)) IN
                      /\ photo_dict' =
                            (IF images # <<>>
                             THEN [ch \in DOMAIN photo_dict \cup {ppi} |->
                                      IF ch = ppi THEN images ELSE photo_dict[ch]]
                             ELSE photo_dict)
                      /\ ppi' = ppi + 1
                      /\ UNCHANGED <<ppc, ppResult, ppRaisedAt>>
    /\ UNCHANGED <<disk, process_type, params, albumFetched, actual_params, pluginBuilt,
                   pluginInvoked, wrote>>
    /\ UNCHANGED <<cfgVars, dlVars, ldVars, conVars, toolVars>>

\* `if not photo_dict` (core.py:787-797): the expected directory is decided
\* and logged, and the error result returned.
PpNoImages ==
    /\ ppc = "scan"
    /\ ppi > Len(disk)
    /\ photo_dict = EmptyDict
    /\ \E decided \in BOOLEAN :
          IF decided
          THEN /\ ppResult' = PpDict("error", NoPath, FALSE, NoImagesMessage)
               /\ ppc' = "done"
               /\ UNCHANGED ppRaisedAt
          ELSE PpExcept("root dir failed")
    /\ UNCHANGED <<disk, process_type, params, albumFetched, ppi, photo_dict,
                   actual_params, pluginBuilt, pluginInvoked, wrote>>
    /\ UNCHANGED <<cfgVars, dlVars, ldVars, conVars, toolVars>>

\* Mutant of PpLookup: a process type the registry lacks is not turned away.
PpLookupLetsThrough ==
    /\ ppc = "scan"
    /\ ppi > Len(disk)
    /\ photo_dict # EmptyDict
    /\ ppc' = "params"
    /\ UNCHANGED <<ppResult, ppRaisedAt>>
    /\ UNCHANGED <<disk, process_type, params, albumFetched, ppi, photo_dict,
                   actual_params, pluginBuilt, pluginInvoked, wrote>>
    /\ UNCHANGED <<cfgVars, dlVars, ldVars, conVars, toolVars>>

\* pclass = JmModuleConfig.REGISTRY_PLUGIN.get(process_type) and the result
\* for None (core.py:799-812).
PpLookup ==
    /\ ppc = "scan"
    /\ ppi > Len(disk)
    /\ photo_dict # EmptyDict
    /\ IF process_type \in REGISTRY_PLUGIN
       THEN /\ ppc' = "params"
            /\ UNCHANGED <<ppResult, ppRaisedAt>>
       ELSE /\ ppResult' = PpDict("error", NoPath, FALSE, NotFoundMessage(process_type))
            /\ ppc' = "done"
            /\ UNCHANGED ppRaisedAt
    /\ UNCHANGED <<disk, process_type, params, albumFetched, ppi, photo_dict,
                   actual_params, pluginBuilt, pluginInvoked, wrote>>
    /\ UNCHANGED <<cfgVars, dlVars, ldVars, conVars, toolVars>>

\* actual_params: a copy of params, or {} for none, with the default
\* filename_rule of the process type (core.py:814-819).
PpParams ==
    /\ ppc = "params"
    /\ LET copy == IF params = NoParams THEN EmptyDict ELSE params IN
       actual_params' =
           (IF "filename_rule" \in DOMAIN copy THEN copy
            ELSE Put(copy, "filename_rule",
                     IF process_type # "zip" THEN "Aid" ELSE "Ptitle"))
    /\ ppc' = "invoke"
    /\ UNCHANGED <<disk, process_type, params, albumFetched, ppi, photo_dict,
                   pluginBuilt, pluginInvoked, wrote, ppResult, ppRaisedAt>>
    /\ UNCHANGED <<cfgVars, dlVars, ldVars, conVars, toolVars>>

\* plugin = pclass.build(self.option); plugin.invoke(**actual_params)
\* (core.py:822-823). Either may raise; the plugin may have written by then.
PpInvoke ==
    /\ ppc = "invoke"
    /\ \E outcome \in {"done", "build_raises", "invoke_raises"} :
          CASE outcome = "build_raises" ->
                 /\ PpExcept("build failed")
                 /\ UNCHANGED <<pluginBuilt, pluginInvoked, wrote>>
            [] outcome = "invoke_raises" \/ PluginRejects(process_type, actual_params) ->
                 /\ pluginBuilt' = TRUE
                 /\ pluginInvoked' = TRUE
                 /\ PpExcept("invoke failed")
                 /\ UNCHANGED wrote
            [] OTHER ->
                 /\ pluginBuilt' = TRUE
                 /\ pluginInvoked' = TRUE
                 /\ wrote' = PluginWrites(process_type, actual_params, photo_dict)
                 /\ ppc' = "predict"
                 /\ UNCHANGED <<ppResult, ppRaisedAt>>
    /\ UNCHANGED <<disk, process_type, params, albumFetched, ppi, photo_dict,
                   actual_params>>
    /\ UNCHANGED <<cfgVars, dlVars, ldVars, conVars, toolVars>>

\* The chapter post_process takes as the sample: the first key of photo_dict.
first_photo == CHOOSE ch \in DOMAIN photo_dict : \A o \in DOMAIN photo_dict : ch <= o

\* The suffix of core.py:826-827.
SuffixOf(t, p) ==
    IF t = "zip" THEN Get(p, "suffix", "zip")
    ELSE IF t = "img2pdf" THEN "pdf"
    ELSE IF t = "long_img" THEN "png" ELSE "unknown"

\* Mutant of PpSamplePhoto: the album's first chapter is the sample.
PpSamplePhotoOfAlbum == CHOOSE ch \in DOMAIN disk : \A o \in DOMAIN disk : ch <= o

\* The chapter whose path stands for the per-chapter archives (core.py:838).
PpSamplePhoto == first_photo

\* The output path and the success result (core.py:825-855). The path
\* decision is asked with None for the output directory.
PpPredict ==
    /\ ppc = "predict"
    /\ LET suffix == SuffixOf(process_type, actual_params)
           dir_rule_dict == Get(actual_params, "dir_rule", "None")
           filename_rule == Get(actual_params, "filename_rule", "None")
           perPhoto == process_type = "zip"
                           /\ Get(actual_params, "level", "photo") = "photo"
       IN  \E decided \in BOOLEAN :
              IF ~decided
              THEN PpExcept("path failed")
              ELSE /\ ppResult' =
                        (IF perPhoto
                         THEN PpDict("success",
                                     resolve(parent(decide_filepath(AlbumId, PpSamplePhoto,
                                         filename_rule, suffix, "None", dir_rule_dict))),
                                     TRUE, DoneMessage)
                         ELSE PpDict("success",
                                     resolve(decide_filepath(AlbumId, 0,
                                         filename_rule, suffix, "None", dir_rule_dict)),
                                     FALSE, DoneMessage))
                   /\ ppc' = "done"
                   /\ UNCHANGED ppRaisedAt
    /\ UNCHANGED <<disk, process_type, params, albumFetched, ppi, photo_dict,
                   actual_params, pluginBuilt, pluginInvoked, wrote>>
    /\ UNCHANGED <<cfgVars, dlVars, ldVars, conVars, toolVars>>

\* No post_process call has been made.
PostAtRest ==
    /\ ppc = "idle"
    /\ disk = <<>>
    /\ process_type = "zip"
    /\ params = NoParams
    /\ albumFetched = FALSE
    /\ ppi = 1
    /\ photo_dict = EmptyDict
    /\ actual_params = EmptyDict
    /\ pluginBuilt = FALSE
    /\ pluginInvoked = FALSE
    /\ wrote = {}
    /\ ppResult = NoResult
    /\ ppRaisedAt = "none"

NextPost ==
    \/ \E d \in Disks, t \in ProcessTypes : \E p \in ParamsOf(t) : PostProcessCall(d, t, p)
    \/ PpGetAlbumDetail
    \/ PpScanChapter
    \/ PpNoImages
    \/ PpLookup
    \/ PpParams
    \/ PpInvoke
    \/ PpPredict

\* ------------------------------------------------------------------------
\* Two download_album calls at a time (core.py:428-556), each on an album
\* of its own with one chapter; what each call's downloader instance holds.
\* Call c downloads album c, whose chapter has photo_id c.
\* ------------------------------------------------------------------------
Callers == {1, 2}

\* A lock nobody holds; a thread not inside after_image.
NoHolder == [c |-> 0, t |-> 0]

IdleThread == [pc |-> "free", tmp |-> 0]

\* The downloader instance call c's hooks run on.
InstanceOf(c) == cinst[c]

\* The lowest thread of call c that is outside after_image.
ConFreeThreadIs(c, t) ==
    /\ cthr[c][t].pc = "free"
    /\ \A o \in Slots : o < t => cthr[c][o].pc # "free"

\* download_album(album_id, ctx) is called and reaches asyncio.to_thread
\* (core.py:451-458, core.py:543); the chapter of its album has n pages.
ConDownloadAlbum(c, n) ==
    /\ cst[c] = "idle"
    /\ cst' = [cst EXCEPT ![c] = "called"]
    /\ cpages' = [cpages EXCEPT ![c] = n]
    /\ UNCHANGED <<cinst, nInst, cprogress, clockH, cthr, cleft, ccalls>>
    /\ UNCHANGED <<cfgVars, dlVars, ldVars, ppVars, toolVars>>

\* Mutant of ConWorkerStarts: one downloader serves every call, and each
\* start initialises it again.
ConWorkerStartsShared(c) ==
    /\ cst[c] = "called"
    /\ nInst' = 1
    /\ cinst' = [cinst EXCEPT ![c] = 1]
    /\ cprogress' = [cprogress EXCEPT ![1] = EmptyDict]
    /\ clockH' = [clockH EXCEPT ![1] = NoHolder]
    /\ cst' = [cst EXCEPT ![c] = "started"]
    /\ UNCHANGED <<cpages, cthr, cleft, ccalls>>
    /\ UNCHANGED <<cfgVars, dlVars, ldVars, ppVars, toolVars>>

\* The worker thread runs self.option.download_album(album_id,
\* downloader=McpProgressDownloader) (core.py:533): the library makes a new
\* instance of the class this call defined, whose __init__ gives it an
\* empty photo_progress and a lock of its own (core.py:471-474).
ConWorkerStarts(c) ==
    /\ cst[c] = "called"
    /\ nInst' = nInst + 1
    /\ cinst' = [cinst EXCEPT ![c] = nInst + 1]
    /\ cprogress' = [cprogress EXCEPT ![nInst + 1] = EmptyDict]
    /\ clockH' = [clockH EXCEPT ![nInst + 1] = NoHolder]
    /\ cst' = [cst EXCEPT ![c] = "started"]
    /\ UNCHANGED <<cpages, cthr, cleft, ccalls>>
    /\ UNCHANGED <<cfgVars, dlVars, ldVars, ppVars, toolVars>>

\* before_photo (core.py:498-504): under self.lock the chapter's counters
\* are entered into self.photo_progress.
ConBeforePhoto(c) ==
    /\ cst[c] = "started"
    /\ clockH[InstanceOf(c)] = NoHolder
    /\ cprogress' = [cprogress EXCEPT ![InstanceOf(c)] =
                        Put(@, c, [current |-> 0, total |-> cpages[c]])]
    /\ cleft' = [cleft EXCEPT ![c] = cpages[c]]
    /\ cst' = [cst EXCEPT ![c] = "images"]
    /\ UNCHANGED <<cpages, cinst, nInst, clockH, cthr, ccalls>>
    /\ UNCHANGED <<cfgVars, dlVars, ldVars, ppVars, toolVars>>

\* after_image, first half (core.py:510-519): an image thread of call c
\* takes self.lock and reads the chapter's counter, if it is there.
ConAfterImageLock(c, t) ==
    /\ cst[c] = "images"
    /\ cleft[c] > 0
    /\ ConFreeThreadIs(c, t)
    /\ clockH[InstanceOf(c)] = NoHolder
    /\ clockH' = [clockH EXCEPT ![InstanceOf(c)] = [c |-> c, t |-> t]]
    /\ cthr' = [cthr EXCEPT ![c][t] =
                   [pc |-> "locked",
                    tmp |-> IF c \in DOMAIN cprogress[InstanceOf(c)]
                            THEN cprogress[InstanceOf(c)][c].current ELSE 0]]
    /\ cleft' = [cleft EXCEPT ![c] = @ - 1]
    /\ UNCHANGED <<cst, cpages, cinst, nInst, cprogress, ccalls>>
    /\ UNCHANGED <<cfgVars, dlVars, ldVars, ppVars, toolVars>>

\* after_image, second half (core.py:518-521): the counter is written back
\* one higher, if the chapter is in photo_progress, and the lock released.
ConAfterImageStore(c, t) ==
    /\ cthr[c][t].pc = "locked"
    /\ cprogress' = [cprogress EXCEPT ![InstanceOf(c)] =
                        IF c \in DOMAIN @
                        THEN [@ EXCEPT ![c].current = cthr[c][t].tmp + 1]
                        ELSE @]
    /\ clockH' = [clockH EXCEPT ![InstanceOf(c)] = NoHolder]
    /\ cthr' = [cthr EXCEPT ![c][t] = IdleThread]
    /\ ccalls' = [ccalls EXCEPT ![c] = @ + 1]
    /\ UNCHANGED <<cst, cpages, cinst, nInst, cleft>>
    /\ UNCHANGED <<cfgVars, dlVars, ldVars, ppVars, toolVars>>

\* The worker has finished and download_album returns (core.py:543-556).
ConJoin(c) ==
    /\ cst[c] = "images"
    /\ cleft[c] = 0
    /\ \A t \in Slots : cthr[c][t].pc = "free"
    /\ cst' = [cst EXCEPT ![c] = "done"]
    /\ UNCHANGED <<cpages, cinst, nInst, cprogress, clockH, cthr, cleft, ccalls>>
    /\ UNCHANGED <<cfgVars, dlVars, ldVars, ppVars, toolVars>>

\* No download_album call of the pair has been made.
ConAtRest ==
    /\ cst = [c \in Callers |-> "idle"]
    /\ cpages = [c \in Callers |-> 0]
    /\ cinst = [c \in Callers |-> 0]
    /\ nInst = 0
    /\ cprogress = [i \in Callers |-> EmptyDict]
    /\ clockH = [i \in Callers |-> NoHolder]
    /\ cthr = [c \in Callers |-> [t \in Slots |-> IdleThread]]
    /\ cleft = [c \in Callers |-> 0]
    /\ ccalls = [c \in Callers |-> 0]

NextConcurrent ==
    \/ \E c \in Callers, n \in 1..MaxPages : ConDownloadAlbum(c, n)
    \/ \E c \in Callers : ConWorkerStarts(c)
    \/ \E c \in Callers : ConBeforePhoto(c)
    \/ \E c \in Callers, t \in Slots : ConAfterImageLock(c, t)
    \/ \E c \in Callers, t \in Slots : ConAfterImageStore(c, t)
    \/ \E c \in Callers : ConJoin(c)

\* ------------------------------------------------------------------------
\* resolve_option_path (core.py:29-71)
\* A path string is the list of its components and whether it begins with
\* the root; the empty string has no component.
\* ------------------------------------------------------------------------
Str(abs, parts) == [abs |-> abs, parts |-> parts]

EmptyStr == Str(FALSE, <<>>)

\* cli_path: None, or a string.
NoneArg == [none |-> TRUE, str |-> EmptyStr]

Arg(str) == [none |-> FALSE, str |-> str]

CliPaths ==
    {NoneArg, Arg(EmptyStr),
     Arg(Str(FALSE, <<"conf", "option.yml">>)),
     Arg(Str(TRUE, <<"etc", "jm.yml">>)),
     Arg(Str(TRUE, <<"opt", "..", "etc", "jm.yml">>))}

\* os.environ: JM_OPTION_PATH unset, or set to a string.
Unset == [set |-> FALSE, str |-> EmptyStr]

SetTo(str) == [set |-> TRUE, str |-> str]

Environs ==
    {Unset, SetTo(EmptyStr), SetTo(Str(FALSE, <<"env.yml">>)),
     SetTo(Str(TRUE, <<"opt", "env.yml">>))}

Cwds == {<<"work">>, <<"srv", "app">>}

Homes == {<<"home", "u">>, <<"root">>}

\* The filesystem as Path.resolve reads it: its symbolic links, each a
\* function from the directory that is a link to the directory it points at.
Filesystems == {<<>>, (<<"etc">> :> <<"mnt", "etc">>)}

\* os.getenv(ENV_OPTION_PATH) (core.py:63): None when unset.
getenv(env) == IF env.set THEN Arg(env.str) ELSE NoneArg

\* Python's truth of `str | None` (core.py:57, 64): None and "" are false.
Truthy(a) == ~a.none /\ a.str # EmptyStr

\* Path.resolve's walk: "." is skipped, ".." steps up, a component that is a
\* symbolic link is replaced by what it points at.
RECURSIVE Walk(_, _, _)
Walk(done, rest, links) ==
    IF rest = <<>> THEN done
    ELSE LET c == Head(rest)
             next == IF c = "." THEN done
                     ELSE IF c = ".."
                          THEN (IF done = <<>> THEN done
                                ELSE SubSeq(done, 1, Len(done) - 1))
                          ELSE Append(done, c)
         IN  Walk(IF next \in DOMAIN links THEN links[next] ELSE next,
                  Tail(rest), links)

\* Path(s).resolve(): absolute, against the working directory when s is
\* relative, normalised, links followed.
PathResolve(str, dir, links) ==
    Str(TRUE, Walk(<<>>, (IF str.abs THEN <<>> ELSE dir) \o str.parts, links))

\* DEFAULT_OPTION_PATH = Path.home() / ".jmcomic" / "option.yml" (core.py:26)
DEFAULT_OPTION_PATH(h) == Str(TRUE, h \o <<".jmcomic", "option.yml">>)

\* Mutant of resolve_option_path: the environment variable is looked at
\* before the argument.
resolve_option_path_env_first(cli, env, dir, h, links) ==
    IF Truthy(getenv(env))
    THEN [path |-> PathResolve(getenv(env).str, dir, links), via |-> "env"]
    ELSE IF Truthy(cli)
         THEN [path |-> PathResolve(cli.str, dir, links), via |-> "cli"]
         ELSE [path |-> DEFAULT_OPTION_PATH(h), via |-> "default"]

\* resolve_option_path (core.py:56-71): the path and the branch it logs.
resolve_option_path(cli, env, dir, h, links) ==
    IF Truthy(cli)
    THEN [path |-> PathResolve(cli.str, dir, links), via |-> "cli"]
    ELSE IF Truthy(getenv(env))
         THEN [path |-> PathResolve(getenv(env).str, dir, links), via |-> "env"]
         ELSE [path |-> DEFAULT_OPTION_PATH(h), via |-> "default"]

\* A caller (JmcomicService.__init__, core.py:77, or the CLI) calls it.
ResolveCall(cli) ==
    /\ rpc \in {"idle", "returned"}
    /\ rpc' = "called"
    /\ cli_path' = cli
    /\ rstart' = [environ |-> environ, fs |-> fs]
    /\ rpath' = EmptyStr
    /\ rlog' = "none"
    /\ UNCHANGED <<environ, cwd, home, fs>>
    /\ UNCHANGED notRs

\* The body runs: it reads the environment, the working directory and the
\* links, logs one line and returns; it writes nothing.
ResolveReturn ==
    /\ rpc = "called"
    /\ LET r == resolve_option_path(cli_path, environ, cwd, home, fs) IN
          /\ rpath' = r.path
          /\ rlog' = r.via
    /\ rpc' = "returned"
    /\ UNCHANGED <<cli_path, environ, cwd, home, fs, rstart>>
    /\ UNCHANGED notRs

\* The process in which the function may be called.
InitResolve ==
    /\ rpc = "idle"
    /\ cli_path = NoneArg
    /\ environ \in Environs
    /\ cwd \in Cwds
    /\ home \in Homes
    /\ fs \in Filesystems
    /\ rstart = [environ |-> environ, fs |-> fs]
    /\ rpath = EmptyStr
    /\ rlog = "none"

\* No call of resolve_option_path in sight.
ResolveAtRest ==
    /\ InitResolve
    /\ environ = Unset
    /\ cwd = <<"work">>
    /\ home = <<"home", "u">>
    /\ fs = <<>>

NextResolve ==
    \/ \E cli \in CliPaths : ResolveCall(cli)
    \/ ResolveReturn

\* ------------------------------------------------------------------------
\* browse_albums (core.py:287-426)
\* ------------------------------------------------------------------------
MaxPage == 2

\* category_map (core.py:356-368); the values are JmMagicConstants' names.
category_map ==
    [k \in {"all", "0", "doujin", "single", "short", "hanman", "meiman",
            "doujin_cosplay", "3d", "another", "english_site"} |->
       CASE k \in {"all", "0"} -> "CATEGORY_ALL"
         [] k = "doujin" -> "CATEGORY_DOUJIN"
         [] k = "single" -> "CATEGORY_SINGLE"
         [] k = "short" -> "CATEGORY_SHORT"
         [] k = "hanman" -> "CATEGORY_HANMAN"
         [] k = "meiman" -> "CATEGORY_MEIMAN"
         [] k = "doujin_cosplay" -> "CATEGORY_DOUJIN_COSPLAY"
         [] k = "3d" -> "CATEGORY_3D"
         [] k = "another" -> "CATEGORY_ANOTHER"
         [] k = "english_site" -> "CATEGORY_ENGLISH_SITE"]

\* time_map (core.py:371-377)
time_map ==
    [k \in {"all", "day", "today", "week", "month"} |->
       CASE k = "all" -> "TIME_ALL"
         [] k \in {"day", "today"} -> "TIME_TODAY"
         [] k = "week" -> "TIME_WEEK"
         [] k = "month" -> "TIME_MONTH"]

\* order_map (core.py:380-387)
order_map ==
    [k \in {"latest", "likes", "views", "pictures", "score", "comments"} |->
       CASE k = "latest" -> "ORDER_BY_LATEST"
         [] k = "likes" -> "ORDER_BY_LIKE"
         [] k = "views" -> "ORDER_BY_VIEW"
         [] k = "pictures" -> "ORDER_BY_PICTURE"
         [] k = "score" -> "ORDER_BY_SCORE"
         [] k = "comments" -> "ORDER_BY_COMMENT"]

\* The arguments a caller may send.
Categories == {"all", "DOUJIN", "Hanman", "3d", "manga", ""}

TimeRanges == {"all", "Day", "WEEK", "year"}

Orders == {"latest", "Likes", "random"}

\* str.lower() on the arguments in use (core.py:390-392).
str_lower(s) ==
    CASE s = "DOUJIN" -> "doujin"
      [] s = "Hanman" -> "hanman"
      [] s = "Day" -> "day"
      [] s = "WEEK" -> "week"
      [] s = "Likes" -> "likes"
      [] OTHER -> s

\* The error dict of core.py:394-410; the message names the parameter and
\* the value as the caller sent it.
BrowseError(param, value) ==
    [albums |-> <<>>, total_count |-> 0,
     error |-> [invalid |-> param, value |-> value]]

\* What the content client may answer: a JmCategoryPage.
CategoryPages ==
    {[content |-> <<>>, total |-> 0], [content |-> <<"350234">>, total |-> 25]}

\* _parse_search_page (core.py:202-224)
parse_search_page(pg) == [albums |-> pg.content, total_count |-> pg.total]

\* Nothing returned yet.
NoBrowseResult == [albums |-> <<>>, total_count |-> -1]

\* The tool is called; client = self.get_client() returns the attribute; the
\* three lookups of core.py:390-392.
BrowseAlbumsCall(c, t, o, p) ==
    /\ bpc \in {"idle", "returned", "raised"}
    /\ bpc' = "validate"
    /\ category' = c
    /\ time_range' = t
    /\ order_by' = o
    /\ page' = p
    /\ category_value' = Get(category_map, str_lower(c), "None")
    /\ time_value' = Get(time_map, str_lower(t), "None")
    /\ order_value' = Get(order_map, str_lower(o), "None")
    /\ clientCalls' = <<>>
    /\ bresult' = NoBrowseResult
    /\ errorLog' = <<>>
    /\ UNCHANGED notBr

\* Mutant of BrowseValidate: the time_range check is left out.
BrowseValidateSkipsTime ==
    /\ bpc = "validate"
    /\ IF category_value = "None"
       THEN /\ bresult' = BrowseError("category", category)
            /\ errorLog' = Append(errorLog, "category")
            /\ bpc' = "returned"
       ELSE IF order_value = "None"
            THEN /\ bresult' = BrowseError("order_by", order_by)
                 /\ errorLog' = Append(errorLog, "order_by")
                 /\ bpc' = "returned"
            ELSE /\ bpc' = "filter"
                 /\ UNCHANGED <<bresult, errorLog>>
    /\ UNCHANGED <<category, time_range, order_by, page, category_value,
                   time_value, order_value, clientCalls>>
    /\ UNCHANGED notBr

\* The three checks of core.py:394-410, in their order.
BrowseValidate ==
    /\ bpc = "validate"
    /\ IF category_value = "None"
       THEN /\ bresult' = BrowseError("category", category)
            /\ errorLog' = Append(errorLog, "category")
            /\ bpc' = "returned"
       ELSE IF time_value = "None"
            THEN /\ bresult' = BrowseError("time_range", time_range)
                 /\ errorLog' = Append(errorLog, "time_range")
                 /\ bpc' = "returned"
            ELSE IF order_value = "None"
                 THEN /\ bresult' = BrowseError("order_by", order_by)
                      /\ errorLog' = Append(errorLog, "order_by")
                      /\ bpc' = "returned"
                 ELSE /\ bpc' = "filter"
                      /\ UNCHANGED <<bresult, errorLog>>
    /\ UNCHANGED <<category, time_range, order_by, page, category_value,
                   time_value, order_value, clientCalls>>
    /\ UNCHANGED notBr

\* client.categories_filter(...) (core.py:413-419) answers or raises, which
\* nothing in browse_albums catches; the answer is parsed and returned.
BrowseFilter ==
    /\ bpc = "filter"
    /\ clientCalls' = Append(clientCalls,
                             [page |-> page, time |-> time_value,
                              category |-> category_value,
                              order_by |-> order_value])
    /\ \/ /\ bpc' = "raised"
          /\ UNCHANGED bresult
       \/ \E pg \in CategoryPages :
             /\ bresult' = parse_search_page(pg)
             /\ bpc' = "returned"
    /\ UNCHANGED <<category, time_range, order_by, page, category_value,
                   time_value, order_value, errorLog>>
    /\ UNCHANGED notBr

\* No browse_albums call in sight.
BrowseAtRest ==
    /\ bpc = "idle"
    /\ category = "all"
    /\ time_range = "all"
    /\ order_by = "latest"
    /\ page = 1
    /\ category_value = "None"
    /\ time_value = "None"
    /\ order_value = "None"
    /\ clientCalls = <<>>
    /\ bresult = NoBrowseResult
    /\ errorLog = <<>>

NextBrowse ==
    \/ \E c \in Categories, t \in TimeRanges, o \in Orders, p \in 1..MaxPage :
          BrowseAlbumsCall(c, t, o, p)
    \/ BrowseValidate
    \/ BrowseFilter

\* ------------------------------------------------------------------------
\* The two progress downloaders as components (core.py:470-526, 591-634):
\* whoever holds an instance calls its hooks, one call at a time, for any
\* chapter and with any chapter length.
\* ------------------------------------------------------------------------
MaxHookCalls == 4

\* The chapters an image may come from.
HookPhotos == {1, 2}

\* The message a hook hands to the log and the context.
Msg(kind, current, total, pct) ==
    [kind |-> kind, current |-> current, total |-> total, pct |-> pct]

NoMsg == Msg("none", 0, 0, 0)

\* Before any hook call.
NoHook == [hook |-> "none", photo |-> 0, known |-> 0, msg |-> NoMsg]

\* int((self.current / self.total) * 100) (core.py:622)
percentage(current, total) == (current * 100) \div total

\* McpProgressDownloader.before_photo (core.py:498-508) and
\* McpPhotoProgressDownloader.before_photo (core.py:597-609); n is len(photo).
HookBeforePhoto(ph, n) ==
    /\ hCalls < MaxHookCalls
    /\ hCalls' = hCalls + 1
    /\ IF hClass = "album"
       THEN /\ hProgress' = (ph :> [current |-> 0, total |-> n]) @@ hProgress
            /\ UNCHANGED <<hCurrent, hTotal>>
       ELSE /\ hTotal' = n
            /\ UNCHANGED <<hProgress, hCurrent>>
    /\ hLast' = [hook |-> "before_photo", photo |-> ph, known |-> n,
                 msg |-> Msg("start", 0, n, 0)]
    /\ UNCHANGED hClass
    /\ UNCHANGED notHk

\* A variant of the album-level after_image that makes an entry for a
\* chapter it has not seen (as with setdefault) and counts into it.
HookAfterImageAlbumCreates(ph) ==
    /\ hClass = "album"
    /\ hCalls < MaxHookCalls
    /\ hCalls' = hCalls + 1
    /\ LET has == ph \in DOMAIN hProgress
           current == IF has THEN hProgress[ph].current + 1 ELSE 1
           total == IF has THEN hProgress[ph].total ELSE 0
       IN  /\ hProgress' = IF has THEN [hProgress EXCEPT ![ph].current = current]
                           ELSE (ph :> [current |-> 1, total |-> 0]) @@ hProgress
           /\ hLast' = [hook |-> "after_image", photo |-> ph, known |-> total,
                        msg |-> IF total > 0 THEN Msg("count", current, total, 0)
                                ELSE NoMsg]
    /\ UNCHANGED <<hClass, hCurrent, hTotal>>
    /\ UNCHANGED notHk

\* McpProgressDownloader.after_image (core.py:510-526): the entry is counted
\* up if there is one; a line is made only `if total > 0`.
HookAfterImageAlbum(ph) ==
    /\ hClass = "album"
    /\ hCalls < MaxHookCalls
    /\ hCalls' = hCalls + 1
    /\ LET has == ph \in DOMAIN hProgress
           current == IF has THEN hProgress[ph].current + 1 ELSE 0
           total == IF has THEN hProgress[ph].total ELSE 0
       IN  /\ hProgress' = IF has THEN [hProgress EXCEPT ![ph].current = current]
                           ELSE hProgress
           /\ hLast' = [hook |-> "after_image", photo |-> ph, known |-> total,
                        msg |-> IF total > 0 THEN Msg("count", current, total, 0)
                                ELSE NoMsg]
    /\ UNCHANGED <<hClass, hCurrent, hTotal>>
    /\ UNCHANGED notHk

\* McpPhotoProgressDownloader.after_image (core.py:617-634): a percentage
\* `if self.total > 0`, else the plain count.
HookAfterImagePhoto(ph) ==
    /\ hClass = "photo"
    /\ hCalls < MaxHookCalls
    /\ hCalls' = hCalls + 1
    /\ hCurrent' = hCurrent + 1
    /\ hLast' = [hook |-> "after_image", photo |-> ph, known |-> hTotal,
                 msg |-> IF hTotal > 0
                         THEN Msg("percentage", hCurrent + 1, hTotal,
                                  percentage(hCurrent + 1, hTotal))
                         ELSE Msg("plain", hCurrent + 1, 0, 0)]
    /\ UNCHANGED <<hClass, hProgress, hTotal>>
    /\ UNCHANGED notHk

\* __init__ of either class (core.py:471-474, 592-595).
InitHooks ==
    /\ hClass \in {"album", "photo"}
    /\ hProgress = <<>>
    /\ hCurrent = 0
    /\ hTotal = 0
    /\ hLast = NoHook
    /\ hCalls = 0

\* No downloader held by a caller of its hooks.
HooksAtRest ==
    /\ InitHooks
    /\ hClass = "album"

NextHooks ==
    \/ \E ph \in HookPhotos, n \in 0..MaxPages : HookBeforePhoto(ph, n)
    \/ \E ph \in HookPhotos : HookAfterImageAlbum(ph)
    \/ \E ph \in HookPhotos : HookAfterImagePhoto(ph)

\* ------------------------------------------------------------------------
\* jmai skills install (cli.py:118-175) and SkillManager.install
\* (skills/manager.py:78-105)
\* ------------------------------------------------------------------------
\* A file of the source tree: its path below skills_source_dir, the parts of
\* its name the exclusion looks at, and its content.
SkillFile(p, starts, ends, content) ==
    [path |-> p, starts |-> starts, ends |-> ends, content |-> content]

\* What os.walk(self.skills_source_dir) finds.
SourceFiles ==
    {SkillFile("SKILL.md", "SK", ".md", "skill v2"),
     SkillFile("scripts/post_process.py", "po", ".py", "script v2"),
     SkillFile("__init__.py", "__", ".py", "init v2"),
     SkillFile("scripts/post_process.pyc", "po", ".pyc", "bytecode v2"),
     SkillFile("scripts/__pycache__/post_process.cpython.pyc", "po", ".pyc", "cache v2")}

\* A path of the target that the source tree does not have.
UserFile == "notes.txt"

Absent == "absent"

\* A file of another skill, beside the skill directory <target>/jmcomic.
OutsideFile == "../other/SKILL.md"

TargetPaths == { f.path : f \in SourceFiles } \cup {UserFile, OutsideFile}

\* The skill directory <target>/jmcomic (rel_root "."), and the target
\* directory above it.
SkillRoot == "."

Above == ".."

\* The directories os.walk(self.skills_source_dir) hands out, as rel_root.
SourceDirs == {SkillRoot, "scripts", "scripts/__pycache__"}

\* A directory of the skill directory that the source tree does not have.
UserDir == "mine"

TargetDirs == SourceDirs \cup {UserDir}

\* The directory a path lies in (target_root of manager.py:88, 115).
dirname(p) ==
    CASE p \in {"scripts/post_process.py", "scripts/post_process.pyc"} -> "scripts"
      [] p = "scripts/__pycache__/post_process.cpython.pyc" -> "scripts/__pycache__"
      [] p = OutsideFile -> Above
      [] OTHER -> SkillRoot

\* The directory a directory lies in.
Parent(d) ==
    CASE d = "scripts/__pycache__" -> "scripts"
      [] d = SkillRoot -> Above
      [] OTHER -> SkillRoot

\* A directory and the directories above it, up to the skill directory:
\* what mkdir(parents=True) makes sure of (manager.py:85, 89).
RECURSIVE Upto(_)
Upto(d) == IF d = Above THEN {} ELSE {d} \cup Upto(Parent(d))

\* not any(target_root.iterdir()) (manager.py:127, 135)
IsEmptyDir(d, t, ds) ==
    /\ \A p \in TargetPaths : dirname(p) = d => t[p] = Absent
    /\ \A e \in ds : Parent(e) # d

\* A file lies in a directory that exists, and so does a directory.
Consistent(t, ds) ==
    /\ \A p \in TargetPaths : (t[p] # Absent /\ dirname(p) # Above) => dirname(p) \in ds
    /\ \A d \in ds : Parent(d) = Above \/ Parent(d) \in ds

\* What the target may hold before the command: each path absent, or a file
\* left by an earlier installation or by the user.
Targets == [TargetPaths -> {Absent, "v1"}]

\* file.startswith("__") or file.endswith(".pyc") (manager.py:91)
Excluded(f) == f.starts = "__" \/ f.ends = ".pyc"

\* SkillManager.has_conflicts (manager.py:60-76)
has_conflicts(t) == \E f \in SourceFiles : ~Excluded(f) /\ t[f.path] # Absent

\* install_skills, cli.py:151-175: the confirmation, then the choice of
\* overwrite: --force, or a conflict and -y or "yes" to the second question.
InstallSkills(force, yes, proceed, answer) ==
    /\ spc = "idle"
    /\ target0' = target
    /\ dirs0' = dirs
    /\ IF ~yes /\ ~proceed
       THEN /\ spc' = "cancelled"
            /\ UNCHANGED <<overwrite, pending, dirs>>
       ELSE /\ spc' = "walk"
            /\ overwrite' = (force \/ (has_conflicts(target) /\ (yes \/ answer)))
            /\ pending' = SourceFiles
            /\ dirs' = dirs \cup {SkillRoot}
    /\ UNCHANGED <<target, walk, sret, prior>>
    /\ UNCHANGED notSk

\* Mutant of InstallFile: an existing file is replaced whatever overwrite
\* says.
InstallFileAlways(f) ==
    /\ spc = "walk"
    /\ f \in pending
    /\ pending' = pending \ {f}
    /\ IF Excluded(f)
       THEN UNCHANGED <<target, spc>>
       ELSE \/ /\ target' = [target EXCEPT ![f.path] = f.content]
               /\ UNCHANGED spc
            \/ /\ spc' = "raised"
               /\ UNCHANGED target
    /\ dirs' = dirs \cup Upto(dirname(f.path))
    /\ UNCHANGED <<overwrite, target0, dirs0, walk, sret, prior>>
    /\ UNCHANGED notSk

\* One turn of the inner loop of install (manager.py:90-103): the file is
\* passed over when excluded, or when it exists and overwrite is off;
\* otherwise shutil.copy2 copies it, or raises. The directory of the file
\* was made when os.walk handed it out (manager.py:86-89).
InstallFile(f) ==
    /\ spc = "walk"
    /\ f \in pending
    /\ pending' = pending \ {f}
    /\ IF Excluded(f) \/ (target[f.path] # Absent /\ ~overwrite)
       THEN UNCHANGED <<target, spc>>
       ELSE \/ /\ target' = [target EXCEPT ![f.path] = f.content]
               /\ UNCHANGED spc
            \/ /\ spc' = "raised"
               /\ UNCHANGED target
    /\ dirs' = dirs \cup Upto(dirname(f.path))
    /\ UNCHANGED <<overwrite, target0, dirs0, walk, sret, prior>>
    /\ UNCHANGED notSk

\* os.walk is exhausted: install returns and the command prints its last
\* line.
InstallReturns ==
    /\ spc = "walk"
    /\ pending = {}
    /\ spc' = "installed"
    /\ UNCHANGED <<overwrite, target, target0, pending, dirs, dirs0, walk, sret, prior>>
    /\ UNCHANGED notSk

\* uninstall_skills (cli.py:177-226): nothing is done without a skill
\* directory or without the confirmation; otherwise manager.uninstall is
\* called, which finds the skill directory (manager.py:109-111).
UninstallSkills(yes, confirm) ==
    /\ spc \in {"idle", "installed"}
    /\ prior' = spc
    /\ target0' = IF spc = "idle" THEN target ELSE target0
    /\ dirs0' = IF spc = "idle" THEN dirs ELSE dirs0
    /\ IF SkillRoot \notin dirs
       THEN /\ spc' = "skipped"
            /\ UNCHANGED walk
       ELSE IF ~yes /\ ~confirm
       THEN /\ spc' = "cancelled"
            /\ UNCHANGED walk
       ELSE /\ spc' = "uwalk"
            /\ walk' = SourceDirs
    /\ sret' = "none"
    /\ UNCHANGED <<overwrite, target, pending, dirs>>
    /\ UNCHANGED notSk

\* SkillManager.uninstall called by any other caller (manager.py:107-111):
\* False at once when <target>/jmcomic does not exist.
Uninstall ==
    /\ spc \in {"idle", "installed"}
    /\ prior' = spc
    /\ target0' = IF spc = "idle" THEN target ELSE target0
    /\ dirs0' = IF spc = "idle" THEN dirs ELSE dirs0
    /\ IF SkillRoot \notin dirs
       THEN /\ spc' = "uninstalled"
            /\ sret' = "False"
            /\ UNCHANGED walk
       ELSE /\ spc' = "uwalk"
            /\ sret' = "none"
            /\ walk' = SourceDirs
    /\ UNCHANGED <<overwrite, target, pending, dirs>>
    /\ UNCHANGED notSk

\* The files of source directory d that uninstall deletes: those not
\* excluded that exist in the target (manager.py:118-124).
Removable(d, t) ==
    { f.path : f \in { g \in SourceFiles : ~Excluded(g) /\ dirname(g.path) = d
                                            /\ t[g.path] # Absent } }

\* The target's files with the paths in ps deleted.
Without(t, ps) == [p \in TargetPaths |-> IF p \in ps THEN Absent ELSE t[p]]

\* A variant of UninstallDir that removes the directory with all it holds
\* (as shutil.rmtree would).
UninstallDirRemovesTree(d) ==
    /\ spc = "uwalk"
    /\ d \in walk
    /\ \A e \in walk : Parent(e) # d
    /\ walk' = walk \ {d}
    /\ target' = [p \in TargetPaths |-> IF dirname(p) = d THEN Absent ELSE target[p]]
    /\ dirs' = { e \in dirs : d \notin Upto(e) }
    /\ UNCHANGED spc
    /\ UNCHANGED <<overwrite, target0, pending, dirs0, sret, prior>>
    /\ UNCHANGED notSk

\* A variant of UninstallDir that deletes the files and leaves every
\* directory.
UninstallDirKeepsDirs(d) ==
    /\ spc = "uwalk"
    /\ d \in walk
    /\ \A e \in walk : Parent(e) # d
    /\ walk' = walk \ {d}
    /\ target' = Without(target, Removable(d, target))
    /\ UNCHANGED <<spc, dirs>>
    /\ UNCHANGED <<overwrite, target0, pending, dirs0, sret, prior>>
    /\ UNCHANGED notSk

\* One turn of uninstall's os.walk(..., topdown=False) (manager.py:113-131):
\* a directory is handed out after the directories in it; its files that the
\* source has and does not exclude are deleted where they exist, os.remove
\* raising or not; then the directory is removed if it exists and is empty.
UninstallDir(d) ==
    /\ spc = "uwalk"
    /\ d \in walk
    /\ \A e \in walk : Parent(e) # d
    /\ walk' = walk \ {d}
    /\ \/ /\ target' = Without(target, Removable(d, target))
          /\ dirs' = IF d \in dirs /\ IsEmptyDir(d, target', dirs)
                     THEN dirs \ {d}
                     ELSE dirs
          /\ UNCHANGED spc
       \/ /\ Removable(d, target) # {}
          /\ spc' = "raised"
          /\ UNCHANGED <<target, dirs>>
    /\ UNCHANGED <<overwrite, target0, pending, dirs0, sret, prior>>
    /\ UNCHANGED notSk

\* os.walk is exhausted: the skill directory is removed if it is still there
\* and empty, and uninstall returns True (manager.py:133-143).
UninstallReturns ==
    /\ spc = "uwalk"
    /\ walk = {}
    /\ dirs' = IF SkillRoot \in dirs /\ IsEmptyDir(SkillRoot, target, dirs)
               THEN dirs \ {SkillRoot}
               ELSE dirs
    /\ spc' = "uninstalled"
    /\ sret' = "True"
    /\ UNCHANGED <<overwrite, target, target0, pending, dirs0, walk, prior>>
    /\ UNCHANGED notSk

\* The target directory as the command may find it.
InitSkills ==
    /\ spc = "idle"
    /\ overwrite = FALSE
    /\ target \in Targets
    /\ target0 = target
    /\ pending = {}
    /\ dirs \in SUBSET TargetDirs
    /\ Consistent(target, dirs)
    /\ dirs0 = dirs
    /\ walk = {}
    /\ sret = "none"
    /\ prior = "none"

\* No skills command in sight.
SkillsAtRest ==
    /\ InitSkills
    /\ target = [p \in TargetPaths |-> Absent]
    /\ dirs = {}

NextSkills ==
    \/ \E force, yes, proceed, answer \in BOOLEAN :
          InstallSkills(force, yes, proceed, answer)
    \/ \E f \in SourceFiles : InstallFile(f)
    \/ InstallReturns

NextUninstall ==
    \/ \E yes, confirm \in BOOLEAN : UninstallSkills(yes, confirm)
    \/ Uninstall
    \/ \E d \in SourceDirs : UninstallDir(d)
    \/ UninstallReturns

\* Installations and uninstallations, one command after the other.
NextSkillsCommands == NextSkills \/ NextUninstall

\* ------------------------------------------------------------------------
\* run_with_reloader and RestartHandler (mcp/reloader.py)
\* Two threads: the main thread in the monitor loop, and the observer's
\* thread, which runs on_modified for one event after the other. Both call
\* start_process, which reads and writes the variable `process` of
\* run_with_reloader.
\* ------------------------------------------------------------------------
MaxClock == 8

MaxChildren == 3

\* One second of time.time(), in ticks.
TicksPerSecond == 2

\* time.time() when the reloader starts: far from 0.
StartClock == 3

Threads == {"main", "observer"}

\* The paths a modification event may carry.
SrcPaths == {"core.py", "option.yml", "core.pyc"}

\* event.src_path.endswith(".py") (reloader.py:16)
endswith_py(p) == p = "core.py"

\* Mutant of MayRestart: no throttle.
MayRestartAlways(t, last) == TRUE

\* now - self.last_restart > 1 (reloader.py:18)
MayRestart(t, last) == t - last > TicksPerSecond

\* A child that runs no more.
Dead(c) == children[c] \in {"exited", "terminated", "killed"}

\* Time passes.
Tick ==
    /\ clock < MaxClock
    /\ clock' = clock + 1
    /\ UNCHANGED <<process, children, sp, mpc, hpc, now, last_restart, triggers>>
    /\ UNCHANGED notRl

\* The server child ends on its own.
ChildExits(c) ==
    /\ c \in DOMAIN children
    /\ children[c] = "running"
    /\ children' = [children EXCEPT ![c] = "exited"]
    /\ UNCHANGED <<clock, process, sp, mpc, hpc, now, last_restart, triggers>>
    /\ UNCHANGED notRl

\* A child that was sent SIGTERM ends.
ChildTerminates(c) ==
    /\ c \in DOMAIN children
    /\ children[c] = "terminating"
    /\ children' = [children EXCEPT ![c] = "terminated"]
    /\ UNCHANGED <<clock, process, sp, mpc, hpc, now, last_restart, triggers>>
    /\ UNCHANGED notRl

\* start_process, `if process:` (reloader.py:33)
SpIf(t) ==
    /\ sp[t] = "if"
    /\ sp' = [sp EXCEPT ![t] = IF process # 0 THEN "terminate" ELSE "popen"]
    /\ UNCHANGED <<clock, process, children, mpc, hpc, now, last_restart, triggers>>
    /\ UNCHANGED notRl

\* process.terminate() (reloader.py:34), on the child `process` names now.
SpTerminate(t) ==
    /\ sp[t] = "terminate"
    /\ children' = [children EXCEPT ![process] =
                       IF @ = "running" THEN "terminating" ELSE @]
    /\ sp' = [sp EXCEPT ![t] = "wait"]
    /\ UNCHANGED <<clock, process, mpc, hpc, now, last_restart, triggers>>
    /\ UNCHANGED notRl

\* process.wait(timeout=5) (reloader.py:35-37): returns when the child
\* `process` names has ended, or times out while it still runs.
SpWait(t) ==
    /\ sp[t] = "wait"
    /\ sp' = [sp EXCEPT ![t] = IF Dead(process) THEN "popen" ELSE "kill"]
    /\ UNCHANGED <<clock, process, children, mpc, hpc, now, last_restart, triggers>>
    /\ UNCHANGED notRl

\* process.kill() (reloader.py:38)
SpKill(t) ==
    /\ sp[t] = "kill"
    /\ children' = [children EXCEPT ![process] = IF Dead(process) THEN @ ELSE "killed"]
    /\ sp' = [sp EXCEPT ![t] = "popen"]
    /\ UNCHANGED <<clock, process, mpc, hpc, now, last_restart, triggers>>
    /\ UNCHANGED notRl

\* process = subprocess.Popen(cmd) (reloader.py:48)
SpPopen(t) ==
    /\ sp[t] = "popen"
    /\ Len(children) < MaxChildren
    /\ children' = Append(children, "running")
    /\ process' = Len(children) + 1
    /\ sp' = [sp EXCEPT ![t] = "done"]
    /\ UNCHANGED <<clock, mpc, hpc, now, last_restart, triggers>>
    /\ UNCHANGED notRl

\* The monitor loop, reloader.py:59-61: time.sleep(1), then
\* `if process and process.poll() is not None`.
MainPoll ==
    /\ mpc = "sleep1"
    /\ mpc' = IF process # 0 /\ Dead(process) THEN "sleep2" ELSE "sleep1"
    /\ UNCHANGED <<clock, process, children, sp, hpc, now, last_restart, triggers>>
    /\ UNCHANGED notRl

\* reloader.py:63-65: the message, time.sleep(2), start_process() is called.
MainRestart ==
    /\ mpc = "sleep2"
    /\ mpc' = "start_process"
    /\ sp' = [sp EXCEPT !["main"] = "if"]
    /\ UNCHANGED <<clock, process, children, hpc, now, last_restart, triggers>>
    /\ UNCHANGED notRl

\* start_process returns to the monitor loop.
MainRestarted ==
    /\ mpc = "start_process"
    /\ sp["main"] = "done"
    /\ mpc' = "sleep1"
    /\ sp' = [sp EXCEPT !["main"] = "none"]
    /\ UNCHANGED <<clock, process, children, hpc, now, last_restart, triggers>>
    /\ UNCHANGED notRl

\* KeyboardInterrupt in the monitor loop (reloader.py:66-69): the observer
\* is stopped and the child `process` names is sent SIGTERM.
MainInterrupt ==
    /\ mpc \in {"sleep1", "sleep2"}
    /\ mpc' = "stopped"
    /\ children' = IF process # 0
                   THEN [children EXCEPT ![process] =
                            IF @ = "running" THEN "terminating" ELSE @]
                   ELSE children
    /\ UNCHANGED <<clock, process, sp, hpc, now, last_restart, triggers>>
    /\ UNCHANGED notRl

\* RestartHandler.on_modified (reloader.py:15-20) up to the call of
\* restart_callback: the suffix test, now = time.time(), the throttle test.
OnModified(p) ==
    /\ hpc = "idle"
    /\ mpc # "stopped"
    /\ IF endswith_py(p) /\ MayRestart(clock, last_restart)
       THEN /\ now' = clock
            /\ triggers' = Append(triggers, [at |-> clock, path |-> p])
            /\ hpc' = "callback"
            /\ sp' = [sp EXCEPT !["observer"] = "if"]
       ELSE /\ now' = IF endswith_py(p) THEN clock ELSE now
            /\ UNCHANGED <<triggers, hpc, sp>>
    /\ UNCHANGED <<clock, process, children, mpc, last_restart>>
    /\ UNCHANGED notRl

\* restart_callback has returned: self.last_restart = now (reloader.py:21).
OnModifiedReturns ==
    /\ hpc = "callback"
    /\ sp["observer"] = "done"
    /\ last_restart' = now
    /\ hpc' = "idle"
    /\ sp' = [sp EXCEPT !["observer"] = "none"]
    /\ UNCHANGED <<clock, process, children, mpc, now, triggers>>
    /\ UNCHANGED notRl

\* run_with_reloader after the first start_process() and observer.start()
\* (reloader.py:51-56): one child runs, both threads are at rest.
InitReloader ==
    /\ clock = StartClock
    /\ process = 1
    /\ children = <<"running">>
    /\ sp = [t \in Threads |-> "none"]
    /\ mpc = "sleep1"
    /\ hpc = "idle"
    /\ now = 0
    /\ last_restart = 0
    /\ triggers = <<>>

\* No reloader: the server was started without --reload.
ReloaderAtRest ==
    /\ clock = StartClock
    /\ process = 0
    /\ children = <<>>
    /\ sp = [t \in Threads |-> "none"]
    /\ mpc = "stopped"
    /\ hpc = "idle"
    /\ now = 0
    /\ last_restart = 0
    /\ triggers = <<>>

\* The steps of the main thread.
MainSteps ==
    \/ MainPoll
    \/ MainRestart
    \/ MainRestarted
    \/ SpIf("main") \/ SpTerminate("main") \/ SpWait("main")
    \/ SpKill("main") \/ SpPopen("main")

NextReloader ==
    \/ Tick
    \/ \E c \in 1..MaxChildren : ChildExits(c)
    \/ \E c \in 1..MaxChildren : ChildTerminates(c)
    \/ \E t \in Threads : SpIf(t)
    \/ \E t \in Threads : SpTerminate(t)
    \/ \E t \in Threads : SpWait(t)
    \/ \E t \in Threads : SpKill(t)
    \/ \E t \in Threads : SpPopen(t)
    \/ MainPoll
    \/ MainRestart
    \/ MainRestarted
    \/ MainInterrupt
    \/ \E p \in SrcPaths : OnModified(p)
    \/ OnModifiedReturns

\* The functions beside the service's tools, none of them called.
ToolsAtRest ==
    /\ ResolveAtRest
    /\ BrowseAtRest
    /\ HooksAtRest
    /\ SkillsAtRest
    /\ ReloaderAtRest

\* The service as constructed on the default settings, no call made yet.
InitService ==
    /\ InitOption
    /\ option = DefaultOption
    /\ InitDownload
    /\ LoadAtRest
    /\ PostAtRest
    /\ ConAtRest
    /\ ToolsAtRest

\* A valid document with a dir_rule of its own: albums go under another base
\* directory.
DirRuleOption == DefaultOption @@ ("dir_rule" :> Dict("base_dir" :> Leaf("custom_base")))

\* The documents a completed update_option may make the active one while a
\* download is in flight.
ReplacingDocs == {DefaultOption, DirRuleOption}

\* update_option (core.py:149, a plain def) run to its successful end by
\* another request, as a download sees it: the file holds d (core.py:182),
\* reload_option has assigned self.option (core.py:146) and self.client
\* (core.py:147). The event loop runs it only while no download_album is
\* between its call and its await (core.py:452-543 has no await).
OptionReplaced(d) ==
    /\ dpc # "decide_dir"
    /\ d # option
    /\ optFile' = FileOk(d)
    /\ option' = d
    /\ client' = d
    /\ UNCHANGED upVars
    /\ UNCHANGED <<dlVars, otherVars>>

NextAlbumUnderUpdate ==
    \/ NextAlbum
    \/ \E d \in ReplacingDocs : OptionReplaced(d)

\* download_album calls with update_option calls of other requests in between.
SpecAlbumUnderUpdate == InitService /\ [][NextAlbumUnderUpdate]_vars

NextDownload == NextAlbum \/ NextPhoto

\* The service with its settings at rest: one download_album or
\* download_photo call.
SpecDownload == InitService /\ [][NextDownload]_vars

\* The service as constructed on any of the base documents.
InitIdle ==
    /\ InitOption
    /\ InitDownload
    /\ LoadAtRest
    /\ PostAtRest
    /\ ConAtRest
    /\ ToolsAtRest

\* The service with no download running: update_option calls.
SpecOption == InitIdle /\ [][NextOption]_vars

\* download_album calls alone; the event loop resumes the coroutine that
\* awaits asyncio.to_thread once the worker thread is over.
SpecAlbumFair == InitService /\ [][NextAlbum]_vars /\ WF_vars(AlbumJoin)

\* post_process calls on the service as constructed.
SpecPost == InitService /\ [][NextPost]_vars

\* Two download_album calls at a time on the service as constructed.
SpecConcurrent == InitService /\ [][NextConcurrent]_vars

\* Before the constructor: nothing downloaded, nothing loaded.
InitUnbuilt ==
    /\ InitLoad
    /\ InitDownload
    /\ PostAtRest
    /\ ConAtRest
    /\ ToolsAtRest

\* The service being constructed and reloaded: _load_option calls.
SpecLoad == InitUnbuilt /\ [][NextLoad]_vars

\* The service constructed and at rest, as the functions beside it find it.
ServiceAtRest ==
    /\ InitOption
    /\ option = DefaultOption
    /\ InitDownload
    /\ LoadAtRest
    /\ PostAtRest
    /\ ConAtRest

InitResolveCalls ==
    /\ ServiceAtRest
    /\ InitResolve
    /\ BrowseAtRest
    /\ HooksAtRest
    /\ SkillsAtRest
    /\ ReloaderAtRest

\* resolve_option_path called in any environment.
SpecResolve == InitResolveCalls /\ [][NextResolve]_vars

InitBrowse ==
    /\ ServiceAtRest
    /\ ResolveAtRest
    /\ BrowseAtRest
    /\ HooksAtRest
    /\ SkillsAtRest
    /\ ReloaderAtRest

\* browse_albums calls on the service at rest.
SpecBrowse == InitBrowse /\ [][NextBrowse]_vars

InitHookCalls ==
    /\ ServiceAtRest
    /\ ResolveAtRest
    /\ BrowseAtRest
    /\ InitHooks
    /\ SkillsAtRest
    /\ ReloaderAtRest

\* A progress downloader whose hooks are called in any order.
SpecHooks == InitHookCalls /\ [][NextHooks]_vars

InitSkillsCommand ==
    /\ ServiceAtRest
    /\ ResolveAtRest
    /\ BrowseAtRest
    /\ HooksAtRest
    /\ InitSkills
    /\ ReloaderAtRest

\* jmai skills install on any target directory.
SpecSkills == InitSkillsCommand /\ [][NextSkills]_vars

\* jmai skills install and jmai skills uninstall on one target directory.
SpecUninstall == InitSkillsCommand /\ [][NextSkillsCommands]_vars

InitReloaderRuns ==
    /\ ServiceAtRest
    /\ ResolveAtRest
    /\ BrowseAtRest
    /\ HooksAtRest
    /\ SkillsAtRest
    /\ InitReloader

\* The reloader with its two threads and the children it spawns.
SpecReloader == InitReloaderRuns /\ [][NextReloader]_vars

\* The same, with a main thread that keeps running: a sleep ends, a call
\* returns, a child that was sent SIGTERM or waited for is not waited for
\* for ever.
SpecReloaderFair == SpecReloader /\ WF_vars(MainSteps)

\* ------------------------------------------------------------------------
\* Paths into a document, used to state what a merge keeps and overwrites
\* ------------------------------------------------------------------------
RECURSIVE PathsOf(_)
PathsOf(d) ==
    UNION { {<<k>>} \cup (IF IsDict(d[k])
                          THEN { <<k>> \o q : q \in PathsOf(d[k].d) }
                          ELSE {}) : k \in DOMAIN d }

RECURSIVE HasPath(_, _)
HasPath(d, p) ==
    /\ Head(p) \in DOMAIN d
    /\ \/ Len(p) = 1
       \/ /\ IsDict(d[Head(p)])
          /\ HasPath(d[Head(p)].d, Tail(p))

RECURSIVE GetPath(_, _)
GetPath(d, p) ==
    IF Len(p) = 1 THEN d[Head(p)] ELSE GetPath(d[Head(p)].d, Tail(p))

\* The update u says something about path p of the base document: it holds a
\* value at p, or a leaf at a proper prefix of p (which replaces the mapping
\* p lived in).
Mentions(u, p) ==
    \/ HasPath(u, p)
    \/ \E n \in 1..(Len(p) - 1) :
          /\ HasPath(u, SubSeq(p, 1, n))
          /\ ~IsDict(GetPath(u, SubSeq(p, 1, n)))

\* m is d with u deep-merged onto it.
IsDeepMerge(m, u, d) ==
    /\ \A p \in PathsOf(u) :
          ~IsDict(GetPath(u, p)) => (HasPath(m, p) /\ GetPath(m, p) = GetPath(u, p))
    /\ \A p \in PathsOf(d) :
          ~Mentions(u, p) => (HasPath(m, p) /\ GetPath(m, p) = GetPath(d, p))
    /\ PathsOf(m) \subseteq PathsOf(u) \cup PathsOf(d)

\* ------------------------------------------------------------------------
\* Claims about update_option
\* ------------------------------------------------------------------------

\* C1 (as claimed): when update_option has returned, either it reported
\* success and the active option is the base document with the update
\* deep-merged and valid, or it reported failure and the active option and the
\* client are exactly those of before the call, whichever step failed.
C1_AllOrNothing ==
    upc = "done" =>
        \/ /\ upRet = "updated"
           /\ IsDict(option_updates)
           /\ option = merge_default_dict(option_updates.d, upHist.option)
           /\ Valid(option)
        \/ /\ upRet = "failed"
           /\ option = upHist.option
           /\ client = upHist.client

\* C2: when the validation (construct) of the merged document fails, the
\* active option and the client are those of before the call, the option file
\* is as it was, and the caller gets a failure message, not an exception.
C2_ValidationFailureKeepsOption ==
    (upc = "done" /\ upFailedAt = "construct") =>
        /\ option = upHist.option
        /\ client = upHist.client
        /\ optFile = upHist.file
        /\ upRet = "failed"

\* C2 witness: a call has ended on a failed validation of a merged document
\* that differs from the active one.
C2_Witness ==
    /\ upc = "done"
    /\ upFailedAt = "construct"
    /\ merged_option # upHist.option
    /\ ~Valid(merged_option)

\* C3: persist-then-swap: in every state in which the active option is no
\* longer the one the call began with, the option file already holds, fully
\* written, the document that is now active.
C3_PersistThenSwap ==
    option # upHist.option => optFile = FileOk(option)

\* C3 witness: the option has been swapped for a new document and the call is
\* still running (the client is not rebuilt yet).
C3_Witness ==
    /\ upc = "build"
    /\ option # upHist.option
    /\ option = new_option

\* C4: after a successful update the active option is the base document with
\* the update deep-merged: leaves the update names are overwritten, nested
\* mappings are merged key by key, everything the update does not mention is
\* kept; and {download:{threading:{image:50}}} on a document without
\* download.threading gives download.threading.image = 50 and leaves every
\* sibling key under download as it was.
C4_DeepMerge ==
    (upc = "done" /\ upRet = "updated") =>
        /\ IsDeepMerge(option, option_updates.d, upHist.option)
        /\ (upHist.option = NoThreadingOption /\ option_updates = UpdThreadingImage) =>
              /\ option["download"].d["threading"].d["image"] = Leaf("50")
              /\ \A k \in DOMAIN NoThreadingOption["download"].d :
                    option["download"].d[k] = NoThreadingOption["download"].d[k]
              /\ option["client"] = NoThreadingOption["client"]

\* C4 witness: the scenario's update has succeeded on the document without
\* download.threading.
C4_Witness ==
    /\ upc = "done"
    /\ upRet = "updated"
    /\ upHist.option = NoThreadingOption
    /\ option_updates = UpdThreadingImage

\* C23: whoever reads the active settings while update_option runs sees the
\* complete document the call started from or the complete, validated result
\* of merging the update into it; no intermediate document is ever the
\* active one.
C23_OldOrNew ==
    \/ option = upHist.option
    \/ /\ IsDict(option_updates)
       /\ Valid(merge_default_dict(option_updates.d, deconstruct(upHist.option)))
       /\ option = construct(merge_default_dict(option_updates.d, deconstruct(upHist.option)))

\* C23 witness: both sides of the swap, inside one call whose update changes
\* the document: the old document is still active while the new one is being
\* written, and the new one is active while the client is still the old one.
C23_Witness ==
    /\ upc = "build"
    /\ option # upHist.option
    /\ client = upHist.client

\* C23 witness, before the swap: the merged document exists and differs from
\* the active one, which is still the old document.
C23_WitnessBefore ==
    /\ upc = "to_file"
    /\ new_option # option
    /\ option = upHist.option

NonEmpty(none, str) == ~none /\ (str.abs \/ str.parts # <<>>)

C21_WitnessEmpty ==
    /\ rpc = "returned"
    /\ cli_path = Arg(EmptyStr)
    /\ environ = SetTo(EmptyStr)
    /\ rpath = DEFAULT_OPTION_PATH(home)

\* ------------------------------------------------------------------------
\* Claims about browse_albums
\* ------------------------------------------------------------------------
\* The arguments that name a known value when letter case is ignored.
KnownCategories == {"all", "DOUJIN", "Hanman", "3d"}

KnownTimeRanges == {"all", "Day", "WEEK"}

KnownOrders == {"latest", "Likes"}

AllKnown ==
    /\ category \in KnownCategories
    /\ time_range \in KnownTimeRanges
    /\ order_by \in KnownOrders

\* The first parameter, in the order category, time_range, order_by, whose
\* argument names no known value.
FirstUnknown ==
    IF category \notin KnownCategories THEN [invalid |-> "category", value |-> category]
    ELSE IF time_range \notin KnownTimeRanges
         THEN [invalid |-> "time_range", value |-> time_range]
         ELSE [invalid |-> "order_by", value |-> order_by]

\* C25: a call with an unknown category, time_range or order_by returns
\* {albums: [], total_count: 0, error: message}, the message being about the
\* first unknown parameter, and makes no call on the content client; the
\* client is called, once, only when all three are known ignoring case, and
\* then with what the maps give for them.
C25_InvalidNeverReachesClient ==
    /\ (bpc \in {"filter", "returned", "raised"} /\ ~AllKnown) =>
          /\ bpc = "returned"
          /\ bresult = [albums |-> <<>>, total_count |-> 0, error |-> FirstUnknown]
          /\ clientCalls = <<>>
          /\ errorLog = <<FirstUnknown.invalid>>
    /\ clientCalls # <<>> =>
          /\ AllKnown
          /\ Len(clientCalls) = 1
          /\ clientCalls[1].page = page
          /\ clientCalls[1].category \in {"CATEGORY_ALL", "CATEGORY_DOUJIN",
                                          "CATEGORY_HANMAN", "CATEGORY_3D"}
          /\ clientCalls[1].time \in {"TIME_ALL", "TIME_TODAY", "TIME_WEEK"}
          /\ clientCalls[1].order_by \in {"ORDER_BY_LATEST", "ORDER_BY_LIKE"}
    /\ (bpc = "returned" /\ AllKnown) =>
          /\ clientCalls # <<>>
          /\ DOMAIN bresult = {"albums", "total_count"}

\* C25 witness: category and order_by are both unknown, time_range is known
\* in upper case; the call returned the error about category.
C25_Witness ==
    /\ bpc = "returned"
    /\ category = "manga"
    /\ time_range = "WEEK"
    /\ order_by = "random"
    /\ bresult.error.invalid = "category"
    /\ clientCalls = <<>>

\* C25 witness, the other side: mixed-case arguments reached the client.
C25_WitnessCalled ==
    /\ bpc = "returned"
    /\ category = "DOUJIN"
    /\ time_range = "Day"
    /\ order_by = "Likes"
    /\ clientCalls = <<[page |-> 2, time |-> "TIME_TODAY",
                        category |-> "CATEGORY_DOUJIN", order_by |-> "ORDER_BY_LIKE"]>>

C24_KnownTotalReports ==
    (hLast.hook = "after_image" /\ hLast.known > 0) =>
        /\ hLast.msg.kind \in {"count", "percentage"}
        /\ hLast.msg.total = hLast.known
        /\ hLast.msg.current >= 1

\* The single-chapter downloader does emit the plain count.
C24_PhotoPlainCount ==
    /\ hClass = "photo"
    /\ hLast.hook = "after_image"
    /\ hLast.known = 0
    /\ hLast.msg = Msg("plain", 1, 0, 0)

\* ------------------------------------------------------------------------
\* Claims about the skills command
\* ------------------------------------------------------------------------
\* The source files whose name neither starts with "__" nor ends in ".pyc".
Installable ==
    { f \in SourceFiles : f.path \in {"SKILL.md", "scripts/post_process.py"} }

\* C30: with overwrite off, install never changes a file the target already
\* had, and when it has returned every installable file that was missing is
\* there with the source's content; with overwrite on, when it has returned
\* every installable file is there with the source's content; excluded files
\* and files the source does not have are never written.
C30_InstallFrame ==
    /\ (spc \in {"walk", "installed", "raised"} /\ ~overwrite) =>
          \A p \in TargetPaths : target0[p] # Absent => target[p] = target0[p]
    /\ (spc = "installed" /\ ~overwrite) =>
          \A f \in Installable :
             target0[f.path] = Absent => target[f.path] = f.content
    /\ (spc = "installed" /\ overwrite) =>
          \A f \in Installable : target[f.path] = f.content
    /\ \A p \in TargetPaths \ { f.path : f \in Installable } : target[p] = target0[p]

\* C30 witness: install has returned with overwrite off on a target that had
\* an older SKILL.md and no script: the first is as it was, the second is
\* the source's.
C30_Witness ==
    /\ spc = "installed"
    /\ ~overwrite
    /\ target0["SKILL.md"] = "v1"
    /\ target0["scripts/post_process.py"] = Absent
    /\ target["SKILL.md"] = "v1"
    /\ target["scripts/post_process.py"] = "script v2"

\* C30 witness, overwrite on: an older SKILL.md was replaced.
C30_WitnessOverwrite ==
    /\ spc = "installed"
    /\ overwrite
    /\ target0["SKILL.md"] = "v1"
    /\ target["SKILL.md"] = "skill v2"
    /\ target[UserFile] = "v1"

\* ------------------------------------------------------------------------
\* Claims about the reloader
\* ------------------------------------------------------------------------
\* C28: whatever modification events arrive, two calls of the restart
\* callback are more than one second apart, so that no window of one second
\* holds two of them; and the callback is never called for a path that does
\* not end in ".py".
C28_Throttle ==
    /\ \A i, j \in DOMAIN triggers :
          i < j => triggers[j].at - triggers[i].at > TicksPerSecond
    /\ \A i \in DOMAIN triggers : triggers[i].path \notin {"option.yml", "core.pyc"}

\* C28 witness: the callback was called twice, and a third .py event found
\* the throttle closed.
C28_Witness ==
    /\ Len(triggers) = 2
    /\ hpc = "idle"
    /\ now > triggers[2].at
    /\ last_restart = triggers[2].at

\* C29, safety: when a child is spawned, every child spawned before it has
\* ended, or has been sent SIGTERM or SIGKILL by start_process: no two
\* children run at a time without either having been signalled.
C29_TerminatedBeforeSpawn ==
    Cardinality({ c \in DOMAIN children : children[c] = "running" }) <= 1

\* C29, liveness: when the child `process` names has ended on its own, a new
\* child is spawned in the end (unless the reloader is interrupted, or the
\* bound on children is reached).
C29_ExitLeadsToRestart ==
    \A n \in 1..(MaxChildren - 1) :
       (Len(children) = n /\ process = n /\ children[n] = "exited" /\ sp["observer"] = "none")
          ~> (Len(children) > n \/ mpc = "stopped" \/ sp["observer"] # "none")

\* The race behind C29's counterexample: both threads are in start_process
\* for the same ended child.
C29_BothInStartProcess ==
    /\ sp["main"] = "popen"
    /\ sp["observer"] = "popen"

\* ------------------------------------------------------------------------
\* Claims about download_album and download_photo
\* ------------------------------------------------------------------------
\* The after_image calls of chapter ch that have not yet written the counter.
NotYetCounted(ch) ==
    Cardinality({ s \in Slots : slots[s].ch = ch /\ slots[s].pc \in {"enter", "store"} })

IsIncreasing(q) == \A i, j \in 1..Len(q) : i < j => q[i] < q[j]

\* C5 (as claimed): whatever the content client raises during download_album
\* or download_photo, the call does not raise: it returns a result, whose
\* status is 'failed' when something failed.
C5_FailuresBecomeResults ==
    /\ dpc # "raised"
    /\ (dpc = "returned" /\ (engineFailed \/ postRead \in {"detail_raises", "dir_raises"}))
          => result.status = "failed"

\* C6: the target path of download_album is predicted before the worker
\* starts, and the result carries it and the title whatever the outcome; when
\* the worker's fetch has failed the result has status 'failed' and a
\* non-empty error.
C6_FailedAlbumKeepsPath ==
    /\ (dkind = "album" /\ dpc \in {"offloaded", "returned"})
          => (target_path = decide_album_root_dir(option, AlbumId) /\ target_path # NoPath)
    /\ (dkind = "album" /\ dpc = "returned")
          => /\ result.download_path = target_path
             /\ result.title = "title-123"
             /\ result.album_id = AlbumId
    /\ (dkind = "album" /\ dpc = "returned" /\ engineFailed)
          => /\ result.status = "failed"
             /\ result.error \notin {"None", ""}

\* C6 witness: download_album has returned after the fetch of chapter 2
\* failed while chapter 1 had its images counted.
C6_Witness ==
    /\ dkind = "album"
    /\ dpc = "returned"
    /\ Len(album) >= 2
    /\ chSt[2] = "failed"
    /\ chSt[1] = "running"
    /\ photo_progress[1].current >= 1
    /\ result.status = "failed"

\* C7: in download_photo, when the download succeeded and the read after it
\* failed, the result has status 'failed' with the read's error, image_count
\* 0 and an empty download_path.
C7_PostReadFailure ==
    (dkind = "photo" /\ dpc = "returned" /\ postRead \in {"detail_raises", "dir_raises"})
        => /\ ~engineFailed
           /\ result.status = "failed"
           /\ result.error = ErrRead
           /\ result.image_count = 0
           /\ result.download_path = NoPath

\* C7 witness: download_photo has returned after a download that saved every
\* image and a read that raised.
C7_Witness ==
    /\ dkind = "photo"
    /\ dpc = "returned"
    /\ postRead = "dir_raises"
    /\ album[1] >= 1
    /\ Len(logged[1]) = album[1]

\* C8: no lost update in photo_progress: at every moment a registered
\* chapter's counter is the number of after_image calls that have passed the
\* locked section, so that after N calls for a chapter of total N it is N.
C8_NoLostUpdate ==
    dkind = "album" =>
        \A ch \in DOMAIN photo_progress :
            /\ photo_progress[ch].current = afterImages[ch] - NotYetCounted(ch)
            /\ (afterImages[ch] = photo_progress[ch].total /\ NotYetCounted(ch) = 0)
                  => photo_progress[ch].current = photo_progress[ch].total

\* C8 witness: a chapter of at least two images has had all of them counted,
\* two of the calls having been in after_image at the same time.
C8_Witness ==
    /\ dkind = "album"
    /\ \E ch \in DOMAIN photo_progress :
          /\ photo_progress[ch].total >= 2
          /\ photo_progress[ch].current = photo_progress[ch].total
          /\ afterImages[ch] = photo_progress[ch].total
          /\ Cardinality({ s \in Slots : slots[s].ch = ch /\ slots[s].pc = "emit" }) >= 2

\* C9 (as claimed): the progress lines of one chapter are logged and handed
\* over in strictly increasing order of 'current'.
C9_ChapterOrdered ==
    dkind = "album" => \A ch \in DOMAIN logged : IsIncreasing(logged[ch])

\* C10: a hand-off that raises, or a coroutine that fails later, changes
\* nothing: no exception leaves a hook, the counters are those of the
\* after_image calls made, and the status returned is 'failed' exactly when
\* the library's fetch or the read after it failed.
C10_NotificationFailureIgnored ==
    /\ ~hookRaised
    /\ dkind = "album" =>
          \A ch \in DOMAIN photo_progress :
              photo_progress[ch].current = afterImages[ch] - NotYetCounted(ch)
    /\ dpc = "returned" =>
          (result.status = "failed"
              <=> (engineFailed \/ postRead \in {"detail_raises", "dir_raises"}))
    /\ dpc = "returned" =>
          (result.status = "success"
              <=> ~(engineFailed \/ postRead \in {"detail_raises", "dir_raises"}))

\* C10 witness: download_album has returned 'success' with a context whose
\* every hand-off raised and was logged as a warning, progress lines having
\* been logged.
C10_Witness ==
    /\ dkind = "album"
    /\ dpc = "returned"
    /\ ctx = "raises"
    /\ warnings >= 3
    /\ result.status = "success"
    /\ \E ch \in DOMAIN logged : Len(logged[ch]) >= 1

\* A second case of C10: download_photo has returned 'success' with a context
\* whose coroutines failed when the loop ran them.
C10_WitnessFailsLater ==
    /\ dkind = "photo"
    /\ dpc = "returned"
    /\ ctx = "fails_later"
    /\ noteFailed
    /\ result.status = "success"

\* ------------------------------------------------------------------------
\* Claims about _load_option
\* ------------------------------------------------------------------------
\* The finished loads that returned a document.
Returned(i) == i \in DOMAIN loadLog /\ ~loadLog[i].raised

\* C18: a load that finds no file at the option path creates the parent
\* directory, writes the default document to the path and returns that
\* default; after every load that returns, the option file exists.
C18_LoadCreatesDefault ==
    \A i \in DOMAIN loadLog :
        Returned(i) =>
            /\ loadLog[i].file.st # "absent"
            /\ loadLog[i].start.st = "absent" =>
                  /\ loadLog[i].wrote
                  /\ loadLog[i].doc = DefaultOption
                  /\ loadLog[i].file = FileOk(DefaultOption)
                  /\ loadLog[i].dir

\* A load found no file and has returned.
C18_Witness ==
    /\ lpc = "build"
    /\ Returned(Len(loadLog))
    /\ loadLog[Len(loadLog)].start.st = "absent"
    /\ parentDir
    /\ loadLog[Len(loadLog)].wrote
    /\ option = DefaultOption
    /\ optFile = FileOk(DefaultOption)

\* C19: of two successive loads that return, with no change to the file from
\* outside in between, the second returns a document equal to the first's
\* and does not write the file.
C19_LoadIdempotent ==
    \A i \in DOMAIN loadLog :
        (i > 1 /\ Returned(i - 1) /\ Returned(i) /\ loadLog[i].clean) =>
            /\ loadLog[i].doc = loadLog[i - 1].doc
            /\ ~loadLog[i].wrote
            /\ loadLog[i].file = loadLog[i - 1].file

\* The first load generated the default file; the second, with the file
\* untouched, has returned.
C19_Witness ==
    /\ Len(loadLog) = 2
    /\ Returned(1) /\ Returned(2)
    /\ loadLog[1].wrote
    /\ loadLog[2].clean
    /\ loadLog[2].caller = "reload"

\* C20: a load that finds a malformed file at the option path raises to its
\* caller, returns no document (no default either) and leaves the file as
\* it found it.
C20_MalformedSurfaces ==
    /\ \A i \in DOMAIN loadLog :
          loadLog[i].start.st = "malformed" =>
              /\ loadLog[i].raised
              /\ ~loadLog[i].wrote
              /\ loadLog[i].file = loadLog[i].start
    /\ (lpc \in {"returned", "build"}) => lstart.st # "malformed"

\* The constructor met a malformed file and raised.
C20_Witness ==
    /\ loadLog # <<>>
    /\ loadLog[Len(loadLog)].start.st = "malformed"
    /\ loadLog[Len(loadLog)].raised
    /\ loadLog[Len(loadLog)].caller = "init"
    /\ svc = "init_failed"
    /\ optFile = FileMalformed
    /\ option = EmptyDict

\* A reload met a file that had become malformed: the option stays.
C20_WitnessReload ==
    /\ Len(loadLog) = 2
    /\ Returned(1)
    /\ loadLog[2].start.st = "malformed"
    /\ loadLog[2].raised
    /\ loadLog[2].caller = "reload"
    /\ option = loadLog[1].doc

\* ------------------------------------------------------------------------
\* Claims about post_process
\* ------------------------------------------------------------------------
\* The scan of the album's chapters has ended without an exception.
ScanEnded == albumFetched /\ ppi > Len(disk)

\* The chapter's directory exists and holds an image.
HoldsImage(ch) ==
    /\ disk[ch].st = "dir"
    /\ \E file \in disk[ch].entries : IsImage(file)

\* The call has returned the success result.
Succeeded == ppc = "done" /\ ppResult.status = "success"

\* C12: post_process on an album whose manifest is empty returns
\* status=error with an empty output_path and a message naming the album and
\* the expected root directory, and the plugin is neither built nor invoked.
C12_EmptyManifest ==
    (ppc = "done" /\ ScanEnded /\ photo_dict = EmptyDict /\ ppRaisedAt = "none") =>
        /\ ppResult.status = "error"
        /\ ppResult.output_path = NoPath
        /\ ppResult.message.album = AlbumId
        /\ ppResult.message.root = decide_album_root_dir(option, AlbumId)
        /\ ~pluginBuilt
        /\ ~pluginInvoked

\* C13: post_process with a process_type outside the plugin registry returns
\* status=error with the "plugin not found" message and an empty
\* output_path, and no plugin is invoked, whatever the disk holds.
C13_UnknownPlugin ==
    (ppc = "done" /\ process_type \notin REGISTRY_PLUGIN /\ ppRaisedAt = "none") =>
        /\ ppResult.status = "error"
        /\ ppResult.message.text = "Plugin not found"
        /\ ppResult.output_path = NoPath
        /\ ~pluginInvoked

\* C13, amended: post_process with a process_type outside the plugin
\* registry returns status=error with an empty output_path and builds and
\* invokes no plugin, whatever the disk holds; the message is the "plugin
\* not found" one when the album was fetched and scanned and its manifest
\* is not empty.
C13_UnknownPluginWithImages ==
    (ppc = "done" /\ process_type \notin REGISTRY_PLUGIN) =>
        /\ ppResult.status = "error"
        /\ ppResult.output_path = NoPath
        /\ ~pluginBuilt
        /\ ~pluginInvoked
        /\ (ScanEnded /\ photo_dict # EmptyDict) =>
              /\ ppResult.message.text = "Plugin not found"
              /\ ppResult.message.error = process_type

\* An unknown process type met an album with images on disk.
C13_Witness ==
    /\ ppc = "done"
    /\ process_type = "rar"
    /\ ScanEnded
    /\ photo_dict # EmptyDict
    /\ ppResult.message = NotFoundMessage("rar")

\* C14: on success output_path is where the plugin wrote: the one file, or
\* for the per-chapter archives the directory of one of them.
C14_PredictedIsWritten ==
    Succeeded =>
        IF ppResult.is_directory
        THEN \E w \in wrote : parent(w) = ppResult.output_path
        ELSE wrote = {ppResult.output_path}

\* C15: post_process never raises; an exception of the fetch, the scan, the
\* plugin's build or invocation or the path decision becomes the result
\* status=error, empty output_path, is_directory false, the exception's
\* text in the message.
C15_NeverRaises ==
    /\ ppc # "raised"
    /\ (ppc = "done" /\ ppRaisedAt # "none") =>
          /\ ppResult.status = "error"
          /\ ppResult.output_path = NoPath
          /\ ppResult.is_directory = FALSE
          /\ ppResult.message.error = ppRaisedAt
    /\ (ppc # "done") => ppRaisedAt = "none"

\* The plugin's invocation raised and the call returned the error result.
C15_Witness ==
    /\ ppc = "done"
    /\ ppRaisedAt = "invoke failed"
    /\ pluginInvoked
    /\ ppResult.status = "error"

\* The fetch raised and the call returned the error result.
C15_WitnessFetch ==
    /\ ppc = "done"
    /\ ppRaisedAt = "fetch failed"
    /\ ppResult.status = "error"

\* C16: a successful call returns is_directory=true exactly for zip at level
\* 'photo' (the default), and then output_path is the parent of the path
\* decided for a chapter of the manifest; otherwise output_path is the path
\* decided for the album.
C16_DirectoryForPerChapterZip ==
    Succeeded =>
        LET rule == actual_params["filename_rule"]
            dr == Get(actual_params, "dir_rule", "None")
            suffix == SuffixOf(process_type, actual_params)
            perChapter == process_type = "zip"
                              /\ ("level" \in DOMAIN params => params["level"] = "photo")
        IN  /\ ppResult.is_directory <=> perChapter
            /\ perChapter =>
                  \E ch \in DOMAIN photo_dict :
                      ppResult.output_path =
                          resolve(parent(decide_filepath(AlbumId, ch, rule, suffix, "None", dr)))
            /\ ~perChapter =>
                  ppResult.output_path =
                      resolve(decide_filepath(AlbumId, 0, rule, suffix, "None", dr))

\* Per-chapter archives of an album whose first chapter is not on disk, under
\* a dir_rule that gives every chapter its own directory.
C16_Witness ==
    /\ Succeeded
    /\ ppResult.is_directory
    /\ process_type = "zip"
    /\ params = [dir_rule |-> "Bd/Pid/Ptitle"]
    /\ DOMAIN photo_dict = {2}
    /\ ppResult.output_path = <<"Bd", "2">>

\* A successful album-level call: one file, no directory.
C16_WitnessFile ==
    /\ Succeeded
    /\ ~ppResult.is_directory
    /\ process_type = "zip"
    /\ params = [level |-> "album"]

\* C17: the manifest holds a chapter if and only if the chapter's directory
\* exists and holds at least one recognized image; no chapter is in it with
\* an empty list, and absent or image-less directories raise nothing.
C17_ManifestChapters ==
    /\ \A ch \in DOMAIN disk :
          ch < ppi => (ch \in DOMAIN photo_dict <=> HoldsImage(ch))
    /\ \A ch \in DOMAIN photo_dict :
          /\ photo_dict[ch] # <<>>
          /\ \A i \in DOMAIN photo_dict[ch] : IsImage(photo_dict[ch][i])
    /\ (ppRaisedAt = "not a directory") => disk[ppi].st = "not_a_dir"

\* A scan that passed over a directory without images and kept the next.
C17_Witness ==
    /\ ScanEnded
    /\ Len(disk) = 2
    /\ disk[1] = [st |-> "dir", entries |-> {NoteFile, DotFile}]
    /\ photo_dict = (2 :> <<ImgA, ImgB>>)

\* A scan that passed over an absent directory.
C17_WitnessAbsent ==
    /\ ScanEnded
    /\ Len(disk) = 2
    /\ disk[2].st = "absent"
    /\ DOMAIN photo_dict = {1}

\* The entries of a listing the claim counts as images: a suffix that is one
\* of the five in any letter case, and a name without a leading dot.
Recognized(file) ==
    /\ file.suffix \in {".jpg", ".jpeg", ".png", ".webp", ".gif",
                        ".JPG", ".JPEG", ".PNG", ".WEBP", ".GIF"}
    /\ ~file.dot

\* C27: for each chapter directory that was scanned, the manifest's list is
\* exactly the recognized entries of the directory, each once, in the order
\* of their names; a chapter in the manifest has every recognized entry of
\* its directory and nothing else.
C27_ExactlyTheImages ==
    \A ch \in DOMAIN photo_dict :
       LET images == photo_dict[ch] IN
       /\ disk[ch].st = "dir"
       /\ { images[i] : i \in DOMAIN images } = { f \in disk[ch].entries : Recognized(f) }
       /\ \A i, j \in DOMAIN images : i < j => images[i].key < images[j].key

\* C27 witness: a directory holding two images (one with an upper-case
\* suffix), a text file and a dot file was scanned.
C27_Witness ==
    /\ ScanEnded
    /\ \E ch \in DOMAIN photo_dict :
          /\ disk[ch].entries = {ImgA, ImgB, NoteFile, DotFile}
          /\ photo_dict[ch] = <<ImgA, ImgB>>

\* ------------------------------------------------------------------------
\* Claims about concurrent download_album calls
\* ------------------------------------------------------------------------
\* C11: two download_album calls at a time never share progress state: the
\* calls run on different downloader instances, the counter map of a call's
\* instance holds that call's chapter only, and its counter is the number
\* of that call's own after_image calls, whatever the other call does.
C11_NoSharedProgress ==
    /\ \A c \in Callers :
          cst[c] \in {"images", "done"} =>
              /\ DOMAIN cprogress[InstanceOf(c)] = {c}
              /\ cprogress[InstanceOf(c)][c].current = ccalls[c]
              /\ cprogress[InstanceOf(c)][c].total = cpages[c]
    /\ \A c \in Callers :
          cst[c] \in {"started", "images", "done"} =>
              \A o \in Callers \ {c} :
                  /\ InstanceOf(o) # InstanceOf(c)
                  /\ clockH[InstanceOf(c)].c \in {0, c}

\* Both calls are counting images at once, each with a thread holding its
\* own lock.
C11_Witness ==
    /\ \A c \in Callers : cst[c] = "images" /\ clockH[InstanceOf(c)].c = c
    /\ ccalls[1] = 1
    /\ ccalls[2] = 0

\* ------------------------------------------------------------------------
\* Further claims about the downloads
\* ------------------------------------------------------------------------
\* C26: no lost update in the single-chapter downloader: once all N
\* after_image calls of a download_photo of N images have been made and
\* have returned, self.current is N, which is what after_photo reports.
C26_PhotoNoLostUpdate ==
    (/\ dkind = "photo"
     /\ ptotal >= 1
     /\ afterImages[1] = ptotal
     /\ NoImageRunning(1)) => pcurrent = ptotal

\* C22: download_album returns its result only after the worker thread has
\* completed or failed, and once the worker is over the call returns.
C22_ReturnsAfterWorker ==
    /\ [](dpc = "returned" => wpc = "ended")
    /\ ((dpc = "offloaded" /\ wpc = "ended") ~> dpc = "returned")

\* The call has returned the result of a worker that failed part-way.
C22_Witness ==
    /\ dkind = "album"
    /\ dpc = "returned"
    /\ wpc = "ended"
    /\ engineFailed
    /\ result.status = "failed"

\* ------------------------------------------------------------------------
\* Claims about the client and the persisted document
\* ------------------------------------------------------------------------
\* C32 (as claimed): between calls and when a call has ended, with success or
\* with failure, the client is the one built from the active option; the
\* option is never a newer document than the one the client was built from.
C32_ClientFromActiveOption ==
    upc \in {"idle", "done"} => client = option

\* C32, the state that refutes it: the call failed while rebuilding the
\* client, the active option is the new document and the client is still the
\* one built from the old document.
C32_StaleClient ==
    /\ upc = "done"
    /\ upFailedAt = "build"
    /\ option # upHist.option
    /\ client = upHist.client
    /\ client # option

\* C39: when update_option reports success, the option file holds the
\* document the call persisted, the active option is that document, and a
\* load of the unchanged file returns that document and leaves the file as
\* it is.
C39_MemoryEqualsDisk ==
    (upc = "done" /\ upRet = "updated") =>
        /\ optFile = FileOk(new_option)
        /\ option = create_option_by_file(optFile)
        /\ LoadOption(optFile) = [raised |-> FALSE, option |-> option, file |-> optFile]

\* C39 witness: a call that changed the document has reported success.
C39_Witness ==
    /\ upc = "done"
    /\ upRet = "updated"
    /\ option # upHist.option
    /\ optFile # upHist.file

\* ------------------------------------------------------------------------
\* Claims about the returned results, the counters and the notifications
\* ------------------------------------------------------------------------
\* C34: in every result download_album and download_photo return, the status
\* is 'success' exactly when the error is None and 'failed' otherwise; a
\* failed download_photo result has image_count 0 and an empty download_path.
C34_StatusIffNoError ==
    dpc = "returned" =>
        /\ result.status \in {"success", "failed"}
        /\ (result.status = "success") <=> (result.error = "None")
        /\ (dkind = "photo" /\ result.status = "failed")
              => (result.image_count = 0 /\ result.download_path = NoPath)

\* C34 witness: download_photo has returned 'failed' for a chapter that has
\* images, some of them saved before the engine failed.
C34_Witness ==
    /\ dkind = "photo"
    /\ dpc = "returned"
    /\ result.status = "failed"
    /\ engineFailed
    /\ album[1] >= 2
    /\ afterImages[1] >= 1

\* C34 witness, the other side: download_album has returned 'success'.
C34_WitnessSuccess ==
    /\ dkind = "album"
    /\ dpc = "returned"
    /\ result.status = "success"
    /\ result.error = "None"

\* An entry of the progress map within its bounds.
InBounds(e) == 0 <= e.current /\ e.current <= e.total

\* C35: every hook call of the album downloader keeps each chapter's entry
\* within 0 <= current <= total as long as the engine reports no more images
\* than the chapter's total after its before_photo (an entry that is within
\* its bounds and below its total is within its bounds after the call, and a
\* new entry starts within them); and an after_image for a chapter that has
\* no entry changes no counter and makes no message.
C35_CountersBounded ==
    [][hClass = "album" =>
          \A ph \in HookPhotos :
              /\ (/\ ph \notin DOMAIN hProgress
                  /\ hCalls' = hCalls + 1
                  /\ hLast'.hook = "after_image"
                  /\ hLast'.photo = ph)
                    => (hProgress' = hProgress /\ hLast'.msg = NoMsg)
              /\ (ph \in DOMAIN hProgress')
                    => \/ InBounds(hProgress'[ph])
                       \/ /\ ph \in DOMAIN hProgress
                          /\ ~(InBounds(hProgress[ph])
                               /\ hProgress[ph].current < hProgress[ph].total)
                          /\ hLast'.hook = "after_image"
                          /\ hLast'.photo = ph
                       \/ /\ ph \in DOMAIN hProgress
                          /\ hProgress'[ph] = hProgress[ph]]_vars

\* C35 witness: an after_image has come for a chapter without an entry while
\* another chapter's entry has reached its total.
C35_Witness ==
    /\ hClass = "album"
    /\ hLast.hook = "after_image"
    /\ hLast.photo \notin DOMAIN hProgress
    /\ \E ph \in DOMAIN hProgress :
          hProgress[ph].total = 2 /\ hProgress[ph].current = 2

\* C35 in the download itself, where the library calls before_photo first
\* and after_image once per saved image, from concurrent image threads.
C35_BoundedInDownload ==
    dkind = "album" =>
        \A ch \in DOMAIN photo_progress : InBounds(photo_progress[ch])

\* C36 (as claimed): when the result is returned no notification handed to
\* the event loop is still waiting to be delivered, and none has been lost.
C36_DeliveredBeforeReturn ==
    dpc = "returned" => (~pendingNotes /\ ~noteFailed)

\* C36, the state that refutes it: the result has been returned while a
\* scheduled notification has not run yet.
C36_ReturnedWithPending ==
    /\ dpc = "returned"
    /\ pendingNotes
    /\ result.status = "success"

\* ------------------------------------------------------------------------
\* Claims about the children of the reloader
\* ------------------------------------------------------------------------
\* C37 (as claimed): under every interleaving of the observer thread's and
\* the main loop's restarts, a child that has not ended is the one `process`
\* names, so at most one child is alive and none is left untracked.
C37_OneTrackedChild ==
    \A c \in DOMAIN children : ~Dead(c) => c = process

\* C37, the state that refutes it: a child spawned by one thread runs while
\* `process` names the child the other thread spawned after it.
C37_UntrackedChild ==
    \E c \in DOMAIN children :
        /\ children[c] = "running"
        /\ c < process
        /\ children[process] = "running"
        /\ sp["main"] = "none"
        /\ sp["observer"] = "none"

\* ------------------------------------------------------------------------
\* Claims about a download while the option is replaced
\* ------------------------------------------------------------------------
\* C33 (as claimed): the download_path download_album returns is the album
\* directory of the settings document the worker thread read for the fetch,
\* also when update_option replaces the active option during the call.
C33_PathOfUsedOption ==
    (dkind = "album" /\ dpc = "returned")
        => result.download_path = decide_album_root_dir(usedOption, AlbumId)

\* C33, the state that refutes it: the path was predicted from the document
\* active before the offload, the worker read the document that replaced it,
\* the download succeeded and the result names the directory of the first.
C33_PathOfReplacedOption ==
    /\ dkind = "album"
    /\ dpc = "returned"
    /\ result.status = "success"
    /\ usedOption = DirRuleOption
    /\ result.download_path = decide_album_root_dir(DefaultOption, AlbumId)
    /\ result.download_path # decide_album_root_dir(usedOption, AlbumId)

\* C33 without an update in flight: the prediction and the worker use the
\* same document.
C33_PathWithoutUpdate ==
    (dkind = "album" /\ dpc = "returned")
        => (usedOption = option
            /\ result.download_path = decide_album_root_dir(usedOption, AlbumId))

\* ------------------------------------------------------------------------
\* Claims about uninstalling the skill
\* ------------------------------------------------------------------------
\* C31: every step of an uninstallation deletes only files whose path is a
\* path of the source tree, inside the skill directory; it creates nothing;
\* a directory it removes is empty by then; and SkillManager.uninstall on a
\* target without <target>/jmcomic returns False and changes nothing.
C31_UninstallFrame ==
    [][(spc = "uwalk" \/ spc' \in {"uwalk", "uninstalled", "skipped"}) =>
          /\ \A p \in TargetPaths :
                target'[p] # target[p]
                   => /\ target'[p] = Absent
                      /\ p \in { f.path : f \in SourceFiles }
                      /\ dirname(p) # Above
          /\ dirs' \subseteq dirs
          /\ \A d \in dirs \ dirs' : IsEmptyDir(d, target', dirs)
          /\ (spc # "uwalk" /\ SkillRoot \notin dirs)
                => /\ spc' \in {"uninstalled", "skipped"}
                   /\ spc' = "uninstalled" => sret' = "False"
                   /\ target' = target
                   /\ dirs' = dirs
          /\ spc' = "uninstalled"
                => sret' = (IF spc = "uwalk" THEN "True" ELSE "False")]_vars

\* C31 witness: uninstall has returned True on a skill directory that held
\* an installed SKILL.md beside a file of the user's: the first is gone, the
\* second and the directory are still there, and so is the other skill.
C31_Witness ==
    /\ spc = "uninstalled"
    /\ sret = "True"
    /\ prior = "idle"
    /\ target0["SKILL.md"] = "v1"
    /\ target["SKILL.md"] = Absent
    /\ target[UserFile] = "v1"
    /\ target[OutsideFile] = "v1"
    /\ "scripts" \in dirs0
    /\ "scripts" \notin dirs
    /\ SkillRoot \in dirs

\* C31 witness, no skill directory: uninstall has returned False.
C31_WitnessAbsent ==
    /\ spc = "uninstalled"
    /\ sret = "False"
    /\ target[OutsideFile] = "v1"

C38_WitnessInstalled ==
    /\ spc = "installed"
    /\ SkillRoot \notin dirs0
    /\ dirs = SourceDirs
    /\ target["SKILL.md"] = "skill v2"
    /\ target["scripts/__pycache__/post_process.cpython.pyc"] = Absent

====
